---------------------------- MODULE Spec2Model ----------------------------
(***************************************************************************)
(* Content-Based File Organizer: the per-file pipeline                     *)
(*   FileEventHandler.on_created -> FileProcessor.process_file ->          *)
(*   TextExtractor.extract_text -> LLMService.generate_filename ->         *)
(*   FileOrganizer.organize_file (sanitize, conflict probe, move/retry).   *)
(*                                                                         *)
(* A string is a sequence of code points (Python str); the character       *)
(* classes below are Python's for the code points 0..159.                  *)
(***************************************************************************)
EXTENDS Integers, Sequences, FiniteSets, TLC

(***************************************************************************)
(* Bounds of the model.                                                    *)
(***************************************************************************)
\* watcher events and direct process_file calls made in one behaviour
MaxCalls == 2
\* direct organize_file calls made in one behaviour
MaxOrganizeCalls == 3
\* organize_file calls of this process while a second organizer runs
MaxRaceCalls == 1
\* direct generate_filename calls are made with every content sample of at
\* most this length (and with SampleContents)
MaxContentLen == 3
\* the wall clock runs from second 0 to second MaxClock of the model's day
MaxClock == 1
\* direct _sanitize_filename calls are made with every name over
\* SanitizeAlphabet of at most this length (and every name of one character)
MaxNameLen == 3
\* direct extract_text calls are made on files of at most this many
\* characters, with max_length from 0 to one more
MaxTextLen == 3
\* direct _extract_from_text calls are made on files of at most this many
\* bytes
MaxBytesLen == 3
\* direct _handle_conflict calls are made on roots that hold any of the
\* names Data.txt, Data_1.txt .. Data_<MaxSuffix>.txt (and some others)
MaxSuffix == 3
\* direct _simulate_filename calls are made with every content over
\* HeuristicAlphabet of at most this length (and with SampleContents)
MaxHeuristicLen == 5
\* direct _bedrock_filename calls get every answer over ResponseAlphabet of
\* at most this length
MaxResponseLen == 3
\* direct _move_with_retry calls are made with retries from 0 to this
MaxRetries == 3

(***************************************************************************)
(* Strings.                                                                *)
(***************************************************************************)
Char == 0..159

\* str.isspace(), and \s of the re module, on 0..159
WhiteSpace == {9, 10, 11, 12, 13, 28, 29, 30, 31, 32, 133}
Letters == (65..90) \cup (97..122)
Digits == 48..57
\* [a-zA-Z0-9_], which is also \w on 0..159
WordChars == Letters \cup Digits \cup {95}

Min(S) == CHOOSE x \in S : \A y \in S : x <= y
Max(S) == CHOOSE x \in S : \A y \in S : y <= x

\* s.strip(chars)
StripSet(s, S) ==
    LET keep == {i \in DOMAIN s : s[i] \notin S}
    IN  IF keep = {} THEN << >> ELSE SubSeq(s, Min(keep), Max(keep))

\* s.strip()
Strip(s) == StripSet(s, WhiteSpace)

\* re.sub('[^...]', '', s): keep the characters of S
Keep(s, S) == SelectSeq(s, LAMBDA c : c \in S)

\* s.lower()
Lower(s) == [i \in DOMAIN s |-> IF s[i] \in 65..90 THEN s[i] + 32 ELSE s[i]]

\* s.capitalize()
Capitalize(s) ==
    [i \in DOMAIN s |->
        IF i = 1
        THEN (IF s[i] \in 97..122 THEN s[i] - 32 ELSE s[i])
        ELSE (IF s[i] \in 65..90 THEN s[i] + 32 ELSE s[i])]

RECURSIVE RunsFrom(_, _, _, _, _)
RunsFrom(s, S, i, cur, acc) ==
    IF i > Len(s)
    THEN (IF cur = << >> THEN acc ELSE Append(acc, cur))
    ELSE IF s[i] \in S
         THEN RunsFrom(s, S, i + 1, Append(cur, s[i]), acc)
         ELSE RunsFrom(s, S, i + 1, << >>,
                       IF cur = << >> THEN acc ELSE Append(acc, cur))

\* the maximal runs of s made of characters of S, in order
Runs(s, S) == RunsFrom(s, S, 1, << >>, << >>)

\* s.split()
Split(s) == Runs(s, Char \ WhiteSpace)

RECURSIVE Join(_, _)
\* sep.join(parts)
Join(parts, sep) ==
    IF parts = << >> THEN << >>
    ELSE IF Len(parts) = 1 THEN parts[1]
    ELSE parts[1] \o sep \o Join(Tail(parts), sep)

\* seq[:n]
Take(s, n) == SubSeq(s, 1, IF Len(s) < n THEN Len(s) ELSE n)

RECURSIVE Dec(_)
\* str(k) for a natural k
Dec(k) == IF k < 10 THEN <<48 + k>> ELSE Dec(k \div 10) \o <<48 + (k % 10)>>

(***************************************************************************)
(* pathlib: suffix and stem of a final path component.                     *)
(***************************************************************************)
\* name.rfind('.') as a 1-based index, 0 when there is no dot
RFindDot(name) ==
    LET dots == {i \in DOMAIN name : name[i] = 46}
    IN  IF dots = {} THEN 0 ELSE Max(dots)

\* PurePath.suffix: name[i:] if 0 < i < len(name) - 1 (0-based) else ''
Suffix(name) ==
    LET i == RFindDot(name)
    IN  IF 1 < i /\ i < Len(name) THEN SubSeq(name, i, Len(name)) ELSE << >>

\* PurePath.stem
Stem(name) ==
    LET i == RFindDot(name)
    IN  IF 1 < i /\ i < Len(name) THEN SubSeq(name, 1, i - 1) ELSE name

(***************************************************************************)
(* FileOrganizer: the pure parts.                                          *)
(***************************************************************************)
\* / \ : * ? " < > | and the control characters 0x00-0x1f, 0x7f-0x9f
InvalidChars ==
    {47, 92, 58, 42, 63, 34, 60, 62, 124} \cup (0..31) \cup (127..159)

Unnamed == <<117, 110, 110, 97, 109, 101, 100>>

\* _sanitize_filename without its strip('. ')
sanitize_filename_no_strip(filename) ==
    LET sanitized == Keep(filename, Char \ InvalidChars)
    IN  IF sanitized = << >> THEN Unnamed ELSE sanitized

sanitize_filename(filename) ==
    LET sanitized == StripSet(Keep(filename, Char \ InvalidChars), {46, 32})
    IN  IF sanitized = << >> THEN Unnamed ELSE sanitized

\* the loop of _handle_conflict taking its first name unseen
probe_first_suffix(existing, stem, suffix, counter) ==
    stem \o <<95>> \o Dec(counter) \o suffix

RECURSIVE ProbeFrom(_, _, _, _)
\* the while loop of _handle_conflict: the first counter whose path is free
ProbeFrom(existing, stem, suffix, counter) ==
    LET new_path == stem \o <<95>> \o Dec(counter) \o suffix
    IN  IF new_path \notin existing
        THEN new_path
        ELSE ProbeFrom(existing, stem, suffix, counter + 1)

\* _handle_conflict numbering from the number of files in the root
handle_conflict_from_count(existing, target) ==
    IF target \notin existing
    THEN target
    ELSE ProbeFrom(existing, Stem(target), Suffix(target),
                   Cardinality(existing))

\* _handle_conflict without its probe
handle_conflict_no_probe(existing, target) == target

\* existing: the names present in the organized root
handle_conflict(existing, target) ==
    IF target \notin existing
    THEN target
    ELSE ProbeFrom(existing, Stem(target), Suffix(target), 1)

(***************************************************************************)
(* LLMService: the pure parts.                                             *)
(***************************************************************************)
Ok(v) == [exc |-> "none", value |-> v]
Raise(e) == [exc |-> e, value |-> << >>]

TwoDigits(n) == <<48 + (n \div 10), 48 + (n % 10)>>

\* datetime.now().strftime("%Y%m%d_%H%M%S"), now being the second of the
\* model's day, 2024-01-01
Strftime(now) ==
    <<50, 48, 50, 52, 48, 49, 48, 49, 95>>
        \o TwoDigits(now \div 3600)
        \o TwoDigits((now \div 60) % 60)
        \o TwoDigits(now % 60)

fallback_filename(now) ==
    <<100, 111, 99, 117, 109, 101, 110, 116, 95>> \o Strftime(now)

common_words == {
    \* the and for that this with from have
    <<116, 104, 101>>, <<97, 110, 100>>, <<102, 111, 114>>, <<116, 104, 97, 116>>, <<116, 104, 105, 115>>, <<119, 105, 116, 104>>, <<102, 114, 111, 109>>, <<104, 97, 118, 101>>,
    \* will your are not but can was were
    <<119, 105, 108, 108>>, <<121, 111, 117, 114>>, <<97, 114, 101>>, <<110, 111, 116>>, <<98, 117, 116>>, <<99, 97, 110>>, <<119, 97, 115>>, <<119, 101, 114, 101>>,
    \* been has had does did would could should
    <<98, 101, 101, 110>>, <<104, 97, 115>>, <<104, 97, 100>>, <<100, 111, 101, 115>>, <<100, 105, 100>>, <<119, 111, 117, 108, 100>>, <<99, 111, 117, 108, 100>>, <<115, 104, 111, 117, 108, 100>>,
    \* about into through during before after above below
    <<97, 98, 111, 117, 116>>, <<105, 110, 116, 111>>, <<116, 104, 114, 111, 117, 103, 104>>, <<100, 117, 114, 105, 110, 103>>, <<98, 101, 102, 111, 114, 101>>, <<97, 102, 116, 101, 114>>, <<97, 98, 111, 118, 101>>, <<98, 101, 108, 111, 119>>,
    \* between under again further then once
    <<98, 101, 116, 119, 101, 101, 110>>, <<117, 110, 100, 101, 114>>, <<97, 103, 97, 105, 110>>, <<102, 117, 114, 116, 104, 101, 114>>, <<116, 104, 101, 110>>, <<111, 110, 99, 101>> }

\* re.findall(r'\b[a-zA-Z]{4,}\b', s): a match spans a whole maximal run of
\* word characters, so it is a run of \w made of 4 or more letters only
FindWords(s) ==
    SelectSeq(Runs(s, WordChars),
              LAMBDA w : Len(w) >= 4 /\ \A i \in DOMAIN w : w[i] \in Letters)

RECURSIVE UniqueFrom(_, _, _)
\* the loop building unique_keywords: first-seen order, at most 5
UniqueFrom(keywords, i, acc) ==
    IF i > Len(keywords) \/ Len(acc) >= 5 THEN acc
    ELSE IF \E j \in DOMAIN acc : acc[j] = keywords[i]
         THEN UniqueFrom(keywords, i + 1, acc)
         ELSE UniqueFrom(keywords, i + 1, Append(acc, keywords[i]))

CapitalizeAll(words) == [i \in DOMAIN words |-> Capitalize(words[i])]

\* _simulate_filename keeping every character of the first words
simulate_filename_unfiltered(content_sample, now) ==
    LET content == Strip(content_sample)
        first_words == Take(Split(content), 3)
    IN  IF first_words # << >>
        THEN Join(CapitalizeAll(first_words), <<95>>)
        ELSE fallback_filename(now)

\* _simulate_filename keeping every occurrence of a keyword
simulate_filename_no_dedup(content_sample, now) ==
    LET content == Strip(content_sample)
        words == FindWords(Lower(content))
        keywords == SelectSeq(words, LAMBDA w : w \notin common_words)
        first_words == Take(Split(content), 3)
        filename == Keep(Join(CapitalizeAll(first_words), <<95>>), WordChars)
    IN  IF keywords # << >>
        THEN Join(CapitalizeAll(Take(keywords, 3)), <<95>>)
        ELSE IF first_words # << >> /\ filename # << >>
             THEN filename
             ELSE fallback_filename(now)

\* _simulate_filename naming by the clock alone
simulate_filename_clock(content_sample, now) == fallback_filename(now)

simulate_filename(content_sample, now) ==
    LET content == Strip(content_sample)
        words == FindWords(Lower(content))
        keywords == SelectSeq(words, LAMBDA w : w \notin common_words)
        unique_keywords == UniqueFrom(keywords, 1, << >>)
        first_words == Take(Split(content), 3)
        filename == Keep(Join(CapitalizeAll(first_words), <<95>>), WordChars)
    IN  IF unique_keywords # << >>
        THEN Join(CapitalizeAll(Take(unique_keywords, 3)), <<95>>)
        ELSE IF first_words # << >> /\ filename # << >>
             THEN filename
             ELSE fallback_filename(now)

\* filename.split('\n')[0]
FirstLine(s) ==
    LET nl == {i \in DOMAIN s : s[i] = 10}
    IN  IF nl = {} THEN s ELSE SubSeq(s, 1, Min(nl) - 1)

RECURSIVE CollapseFrom(_, _, _)
\* re.sub(r'\s+', '_', s)
CollapseFrom(s, i, acc) ==
    IF i > Len(s) THEN acc
    ELSE IF s[i] \in WhiteSpace
         THEN (IF i > 1 /\ s[i - 1] \in WhiteSpace
               THEN CollapseFrom(s, i + 1, acc)
               ELSE CollapseFrom(s, i + 1, Append(acc, 95)))
         ELSE CollapseFrom(s, i + 1, Append(acc, s[i]))

\* the clean-up of the model's answer keeping every line of it
clean_response_all_lines(text) ==
    CollapseFrom(Keep(Strip(text), WordChars \cup WhiteSpace \cup {45}),
                 1, << >>)

\* the clean-up of the model's answer
clean_response(text) ==
    LET line == FirstLine(Strip(text))
        kept == Keep(line, WordChars \cup WhiteSpace \cup {45})
    IN  CollapseFrom(kept, 1, << >>)


\* "claude" in self.bedrock_model.lower()
IsClaude(model) == model \in {"anthropic.claude-v2", "anthropic.claude-instant-v1"}

\* remote: what invoke_model does, [raises, completion, text]; a field the
\* response body lacks reads as '' (dict.get's default)
bedrock_filename(content_sample, client, model, remote, now) ==
    IF ~client
    THEN Ok(simulate_filename(content_sample, now))
    ELSE IF model = "None" \/ remote.raises
         THEN Raise("LLMServiceError")
         ELSE LET raw == IF IsClaude(model) THEN remote.completion
                                            ELSE remote.text
                  filename == clean_response(raw)
              IN  Ok(IF filename # << >> THEN filename
                                         ELSE fallback_filename(now))

\* the blank check of generate_filename taking white space for content
IsBlank_empty_only(content_sample) == content_sample = << >>

\* not content_sample or not content_sample.strip()
IsBlank(content_sample) ==
    content_sample = << >> \/ Strip(content_sample) = << >>

\* the try block of generate_filename: the generator of the active mode
generator(content_sample, mode, client, model, remote, now) ==
    IF mode = "simulated" THEN Ok(simulate_filename(content_sample, now))
    ELSE IF mode = "bedrock"
         THEN bedrock_filename(content_sample, client, model, remote, now)
         ELSE Ok(fallback_filename(now))

\* generate_filename naming by the heuristic when the generator raised
generate_filename_heuristic_on_error(content_sample, mode, client, model, remote, now) ==
    IF IsBlank(content_sample)
    THEN Ok(fallback_filename(now))
    ELSE LET r == generator(content_sample, mode, client, model, remote, now)
         IN  IF r.exc # "none" THEN Ok(simulate_filename(content_sample, now))
                               ELSE r

\* generate_filename without its except clause
generate_filename_uncaught(content_sample, mode, client, model, remote, now) ==
    IF IsBlank(content_sample)
    THEN Ok(fallback_filename(now))
    ELSE generator(content_sample, mode, client, model, remote, now)

generate_filename(content_sample, mode, client, model, remote, now) ==
    IF IsBlank(content_sample)
    THEN Ok(fallback_filename(now))
    ELSE LET r == generator(content_sample, mode, client, model, remote, now)
         IN  IF r.exc # "none" THEN Ok(fallback_filename(now)) ELSE r

\* LLMService.__init__ keeping the configured mode whatever becomes of the
\* client
llm_init_keep_mode(mode_arg, boto_ok) ==
    [mode |-> mode_arg, client |-> (mode_arg = "bedrock" /\ boto_ok)]

\* LLMService.__init__ with _initialize_bedrock: boto_ok is whether boto3 is
\* importable and the client is built without a credentials error
llm_init(mode_arg, boto_ok) ==
    IF mode_arg = "bedrock"
    THEN (IF boto_ok THEN [mode |-> "bedrock", client |-> TRUE]
                     ELSE [mode |-> "simulated", client |-> FALSE])
    ELSE [mode |-> mode_arg, client |-> FALSE]

(***************************************************************************)
(* TextExtractor.                                                          *)
(***************************************************************************)
ExtPdf == <<46, 112, 100, 102>>
ExtTxt == <<46, 116, 120, 116>>
ExtText == <<46, 116, 101, 120, 116>>

RECURSIVE UniversalNewlines(_)
\* what read() of a file opened in text mode returns for the decoded
\* characters s: \r\n and \r become \n
UniversalNewlines(s) ==
    IF s = << >> THEN << >>
    ELSE IF s[1] = 13
         THEN IF Len(s) >= 2 /\ s[2] = 10
              THEN <<10>> \o UniversalNewlines(SubSeq(s, 3, Len(s)))
              ELSE <<10>> \o UniversalNewlines(Tail(s))
         ELSE <<s[1]>> \o UniversalNewlines(Tail(s))

RECURSIVE utf8_from(_, _, _)
\* bytes.decode('utf-8'), strict, from position i on: the shortest form of
\* one code point after the other, no surrogate, none above U+10FFFF
utf8_from(bytes, i, acc) ==
    IF i > Len(bytes) THEN Ok(acc)
    ELSE LET b == bytes[i]
             Cont(k, lo, hi) == /\ i + k <= Len(bytes)
                                /\ bytes[i + k] \in lo..hi
             Low(k) == bytes[i + k] % 64
         IN  IF b <= 127 THEN utf8_from(bytes, i + 1, Append(acc, b))
             ELSE IF b \in 194..223 /\ Cont(1, 128, 191)
             THEN utf8_from(bytes, i + 2, Append(acc, (b % 32) * 64 + Low(1)))
             ELSE IF /\ b \in 224..239
                     /\ Cont(1, IF b = 224 THEN 160 ELSE 128,
                                IF b = 237 THEN 159 ELSE 191)
                     /\ Cont(2, 128, 191)
             THEN utf8_from(bytes, i + 3,
                            Append(acc, (b % 16) * 4096 + Low(1) * 64 + Low(2)))
             ELSE IF /\ b \in 240..244
                     /\ Cont(1, IF b = 240 THEN 144 ELSE 128,
                                IF b = 244 THEN 143 ELSE 191)
                     /\ Cont(2, 128, 191)
                     /\ Cont(3, 128, 191)
             THEN utf8_from(bytes, i + 4,
                            Append(acc, (b % 8) * 262144 + Low(1) * 4096
                                            + Low(2) * 64 + Low(3)))
             ELSE Raise("UnicodeDecodeError")

\* the bytes 0x80-0x9f that cp1252 defines, and their characters
cp1252_table ==
    128 :> 8364 @@ 130 :> 8218 @@ 131 :> 402 @@ 132 :> 8222 @@ 133 :> 8230
    @@ 134 :> 8224 @@ 135 :> 8225 @@ 136 :> 710 @@ 137 :> 8240 @@ 138 :>
    352 @@ 139 :> 8249 @@ 140 :> 338 @@ 142 :> 381 @@ 145 :> 8216 @@ 146
    :> 8217 @@ 147 :> 8220 @@ 148 :> 8221 @@ 149 :> 8226 @@ 150 :> 8211 @@
    151 :> 8212 @@ 152 :> 732 @@ 153 :> 8482 @@ 154 :> 353 @@ 155 :> 8250
    @@ 156 :> 339 @@ 158 :> 382 @@ 159 :> 376

\* bytes.decode(encoding)
decode(encoding, bytes) ==
    IF encoding = "utf-8" THEN utf8_from(bytes, 1, << >>)
    ELSE IF encoding = "latin-1" THEN Ok(bytes)
    ELSE IF \E i \in DOMAIN bytes :
                bytes[i] \in 128..159 /\ bytes[i] \notin DOMAIN cp1252_table
         THEN Raise("UnicodeDecodeError")
         ELSE Ok([i \in DOMAIN bytes |->
                     IF bytes[i] \in DOMAIN cp1252_table
                     THEN cp1252_table[bytes[i]] ELSE bytes[i]])

\* encodings = ['utf-8', 'latin-1', 'cp1252']
encodings == <<"utf-8", "latin-1", "cp1252">>

\* one iteration of the loop of _extract_from_text: open(file_path, 'r',
\* encoding=encoding) and f.read(); io is "ok", or the exception that
\* opening or reading raises
read_with(encoding, bytes, io) ==
    IF io # "ok" THEN Raise(io)
    ELSE LET r == decode(encoding, bytes)
         IN  IF r.exc = "none" THEN Ok(UniversalNewlines(r.value)) ELSE r

\* _extract_from_text giving up when utf-8 fails
extract_from_text_first_only(bytes, ios) ==
    LET r == read_with(encodings[1], bytes, ios[1])
    IN  IF r.exc = "none" THEN r ELSE Raise("TextExtractionError")

RECURSIVE extract_from_text_loop(_, _, _)
\* the for loop of _extract_from_text from the i-th encoding on
extract_from_text_loop(bytes, ios, i) ==
    IF i > Len(encodings) THEN Raise("TextExtractionError")
    ELSE LET r == read_with(encodings[i], bytes, ios[i])
         IN  IF r.exc = "none" THEN r
             ELSE extract_from_text_loop(bytes, ios, i + 1)

\* bytes: the content of the file; ios: what opening and reading it does at
\* each of the three attempts
extract_from_text(bytes, ios) == extract_from_text_loop(bytes, ios, 1)

\* the text the reader of the file's type yields: _extract_from_pdf (the
\* text of the pages, '' if it is white space only) or _extract_from_text
reader_text(file) ==
    IF Lower(Suffix(file.name)) = ExtPdf
    THEN (IF Strip(file.text) = << >> THEN << >> ELSE file.text)
    ELSE UniversalNewlines(file.text)

\* extract_text without its truncation
extract_text_untruncated(file, exists, max_length, outcome) ==
    IF ~exists \/ ~file.readable \/ outcome # "ok"
          \/ Lower(Suffix(file.name)) \notin {ExtPdf, ExtTxt, ExtText}
    THEN Raise("TextExtractionError")
    ELSE Ok(reader_text(file))

\* file: [name, text, readable], text being the decoded characters of the
\* file (the text of the pages, for a PDF); exists: the path exists;
\* outcome: "ok" or "unreadable" (opening or reading the file fails)
extract_text(file, exists, max_length, outcome) ==
    IF ~exists THEN Raise("TextExtractionError")
    ELSE LET extension == Lower(Suffix(file.name))
         IN  IF extension \in {ExtPdf, ExtTxt, ExtText}
             THEN (IF file.readable /\ outcome = "ok"
                   THEN Ok(Take(reader_text(file), max_length))
                   ELSE Raise("TextExtractionError"))
             ELSE Raise("TextExtractionError")

(***************************************************************************)
(* Error containment of the orchestrator and of the event handler.         *)
(***************************************************************************)
\* the classes deriving from Exception that the stages raise
ExceptionTypes ==
    {"TextExtractionError", "LLMServiceError", "FileOrganizerError",
     "FileProcessorError", "RuntimeError", "OSError", "PermissionError"}

\* process_file without its handler of TextExtractionError
process_file_except_abort(stage, exc) ==
    IF exc = "none" THEN "none"
    ELSE IF exc \in ExceptionTypes THEN "FileProcessorError"
    ELSE exc

\* process_file without its last clause, except Exception
process_file_except_narrow(stage, exc) ==
    IF exc = "none" THEN "none"
    ELSE IF stage = "extract" /\ exc = "TextExtractionError" THEN "none"
    ELSE IF stage = "name" /\ exc = "LLMServiceError" THEN "FileProcessorError"
    ELSE IF stage = "organize" /\ exc = "FileOrganizerError"
         THEN "FileProcessorError"
    ELSE exc

\* what leaves process_file when `stage` raised `exc`
process_file_except(stage, exc) ==
    IF exc = "none" THEN "none"
    ELSE IF stage = "extract" /\ exc = "TextExtractionError" THEN "none"
    ELSE IF stage = "name" /\ exc = "LLMServiceError" THEN "FileProcessorError"
    ELSE IF stage = "organize" /\ exc = "FileOrganizerError"
         THEN "FileProcessorError"
    ELSE IF exc = "FileProcessorError" THEN exc
    ELSE IF exc \in ExceptionTypes THEN "FileProcessorError"
    ELSE exc

\* process_file going on to step 3 whatever generate_filename did
after_naming_always_organize(exc) == "organize"

\* where process_file is after step 2: at step 3 if generate_filename
\* returned, out of the call if it raised
after_naming(exc) ==
    IF process_file_except("name", exc) = "none" THEN "organize" ELSE "done"

\* on_created without its try/except
on_created_except_none(exc) == exc

\* what leaves on_created when process_file raised `exc`
on_created_except(exc) == IF exc \in ExceptionTypes THEN "none" ELSE exc

(***************************************************************************)
(* The inputs: the paths of the watched folder, the candidate names of     *)
(* direct organize_file calls, the answers of the remote model, and the    *)
(* configurations.                                                         *)
(***************************************************************************)
\* path -> [name, is_directory, exists, readable, text]
Files == <<
    \* a.txt, "!! data": its first 3 characters hold no letter or digit
    [name |-> <<97, 46, 116, 120, 116>>, is_directory |-> FALSE,
     exists |-> TRUE, readable |-> TRUE,
     text |-> <<33, 33, 32, 100, 97, 116, 97>>],
    \* b.txt, "!! data": the same content as a.txt
    [name |-> <<98, 46, 116, 120, 116>>, is_directory |-> FALSE,
     exists |-> TRUE, readable |-> TRUE,
     text |-> <<33, 33, 32, 100, 97, 116, 97>>],
    \* c.PDF, unparsable bytes
    [name |-> <<99, 46, 80, 68, 70>>, is_directory |-> FALSE,
     exists |-> TRUE, readable |-> FALSE, text |-> << >>],
    \* e, a file with no extension, "data"
    [name |-> <<101>>, is_directory |-> FALSE,
     exists |-> TRUE, readable |-> TRUE, text |-> <<100, 97, 116, 97>>],
    \* sub.txt, a directory
    [name |-> <<115, 117, 98, 46, 116, 120, 116>>, is_directory |-> TRUE,
     exists |-> TRUE, readable |-> FALSE, text |-> << >>],
    \* gone.txt, a path at which no file exists
    [name |-> <<103, 111, 110, 101, 46, 116, 120, 116>>, is_directory |-> FALSE,
     exists |-> FALSE, readable |-> FALSE, text |-> << >>],
    \* d.txt, " \n": white space only
    [name |-> <<100, 46, 116, 120, 116>>, is_directory |-> FALSE,
     exists |-> TRUE, readable |-> TRUE, text |-> <<32, 10>>],
    \* f.text, "data"
    [name |-> <<102, 46, 116, 101, 120, 116>>, is_directory |-> FALSE,
     exists |-> TRUE, readable |-> TRUE, text |-> <<100, 97, 116, 97>>],
    \* g.doc, "data": a file type the watcher does not take
    [name |-> <<103, 46, 100, 111, 99>>, is_directory |-> FALSE,
     exists |-> TRUE, readable |-> TRUE, text |-> <<100, 97, 116, 97>>] >>

Paths == DOMAIN Files

\* f.text and g.doc arrive as created events only
EventOnlyPaths ==
    {p \in Paths : Lower(Suffix(Files[p].name))
                      \in {<<46, 116, 101, 120, 116>>, <<46, 100, 111, 99>>}}

\* the created events of the watcher: one path of each kind, which leaves
\* out b.txt (the same as a.txt) and d.txt (a .txt file as well)
EventPaths ==
    {p \in Paths : Files[p].name \notin {<<98, 46, 116, 120, 116>>,
                                            <<100, 46, 116, 120, 116>>}}

\* the files that process_file and organize_file are called on directly
FilePaths == {p \in Paths : ~Files[p].is_directory} \ EventOnlyPaths

\* "Data", "v1.2", "///"
CandidateNames ==
    {<<68, 97, 116, 97>>, <<118, 49, 46, 50>>, <<47, 47, 47>>}

RemoteOutcomes == {
    [raises |-> TRUE, completion |-> << >>, text |-> << >>],
    \* completion "My Report\nx", no text field
    [raises |-> FALSE,
     completion |-> <<77, 121, 32, 82, 101, 112, 111, 114, 116, 10, 120>>,
     text |-> << >>],
    \* completion "!!", text "data"
    [raises |-> FALSE, completion |-> <<33, 33>>,
     text |-> <<100, 97, 116, 97>>] }

\* the processing section of the configuration: the defaults, and another
\* configuration that validation accepts
Configs == {
    [content_sample_length |-> 1000, retry_attempts |-> 3, retry_delay |-> 2],
    [content_sample_length |-> 3, retry_attempts |-> 5, retry_delay |-> 1] }

\* the arguments of LLMService and whether the remote client can be built
LLMArgs == {
    [mode |-> "simulated", boto_ok |-> FALSE, model |-> "anthropic.claude-v2"],
    [mode |-> "bedrock", boto_ok |-> FALSE, model |-> "anthropic.claude-v2"],
    [mode |-> "bedrock", boto_ok |-> TRUE, model |-> "anthropic.claude-v2"],
    [mode |-> "bedrock", boto_ok |-> TRUE, model |-> "amazon.titan-text"],
    [mode |-> "invalid", boto_ok |-> FALSE, model |-> "anthropic.claude-v2"] }

\* the organized root at the start: missing, or holding Data_1.txt (file
\* 101) from an earlier run
InitialRoots == {
    [exists |-> FALSE, files |-> << >>],
    [exists |-> TRUE,
     files |-> (<<68, 97, 116, 97, 95, 49, 46, 116, 120, 116>> :> 101)] }

\* the content samples of direct generate_filename calls: every string of
\* t, h, e, n, T, space and / of length at most MaxContentLen, and some
\* longer ones
NamingAlphabet == {116, 104, 101, 110, 84, 32, 47}
SampleContents == {
    \* "then"
    <<116, 104, 101, 110>>,
    \* "Then thee"
    <<84, 104, 101, 110, 32, 116, 104, 101, 101>>,
    \* "thee! thee nett"
    <<116, 104, 101, 101, 33, 32, 116, 104, 101, 101, 32, 110, 101, 116, 116>>,
    \* "hen teen tent then tenet"
    <<104, 101, 110, 32, 116, 101, 101, 110, 32, 116, 101, 110, 116, 32,
      116, 104, 101, 110, 32, 116, 101, 110, 101, 116>>,
    \* " !! \n"
    <<32, 33, 33, 32, 10>> }
Contents ==
    UNION {[1..k -> NamingAlphabet] : k \in 0..MaxContentLen}
        \cup SampleContents

\* the names of direct _sanitize_filename calls: / space . a | and the
\* control characters 0x1f and 0x9f
SanitizeAlphabet == {47, 32, 46, 97, 124, 31, 159}
SanitizeNames ==
    UNION {[1..k -> SanitizeAlphabet] : k \in 0..MaxNameLen}
        \cup {<<c>> : c \in Char}

\* the files of direct extract_text calls: x.txt and x.pdf, holding any
\* text over a, space, \r and \n of at most MaxTextLen characters
ExtractNames == {<<120>> \o ExtTxt, <<120>> \o ExtPdf}
ExtractTexts == UNION {[1..k -> {97, 32, 13, 10}] : k \in 0..MaxTextLen}
MaxLengths == 0..(MaxTextLen + 1)

\* the files of direct _extract_from_text calls: any bytes among a, 0xc3,
\* 0xa9 (together: e acute in utf-8), 0x80 and 0x81 (no utf-8 alone; 0x81
\* is nothing in cp1252)
ByteAlphabet == {97, 195, 169, 128, 129}
FileBytes == UNION {[1..k -> ByteAlphabet] : k \in 0..MaxBytesLen}
\* what opening and reading the file does at each of the three attempts
IOOutcomes == [DOMAIN encodings -> {"ok", "OSError"}]

\* what a naming service handed to FileProcessor in place of LLMService
\* does: it returns a name or raises
StubNamings ==
    {Ok(n) : n \in CandidateNames}
        \cup {Raise("LLMServiceError"), Raise("RuntimeError")}

\* the names an organized root of direct _handle_conflict calls may hold:
\* Data.txt and its suffixed names, Data, Data_1, v1.2 and v1_1.2
RootNames ==
    {<<68, 97, 116, 97>> \o ExtTxt}
        \cup {<<68, 97, 116, 97, 95>> \o Dec(k) \o ExtTxt : k \in 1..MaxSuffix}
        \cup {<<68, 97, 116, 97>>, <<68, 97, 116, 97, 95, 49>>,
               <<118, 49, 46, 50>>, <<118, 49, 95, 49, 46, 50>>}
\* the target paths of these calls: Data.txt, Data, v1.2
ConflictTargets ==
    {<<68, 97, 116, 97>> \o ExtTxt, <<68, 97, 116, 97>>, <<118, 49, 46, 50>>}

\* the contents of direct _simulate_filename calls: t, E, 1, _ and space
HeuristicAlphabet == {116, 69, 49, 95, 32}
HeuristicContents ==
    UNION {[1..k -> HeuristicAlphabet] : k \in 0..MaxHeuristicLen}
        \cup SampleContents

\* the answers of the remote model to direct _bedrock_filename calls: a, 1,
\* space, \n, - and !
ResponseAlphabet == {97, 49, 32, 10, 45, 33}
Responses == UNION {[1..k -> ResponseAlphabet] : k \in 0..MaxResponseLen}
\* "zz", the response field of the other model family
OtherField == <<122, 122>>
\* the models of these calls, one of each family
RemoteModels == {"anthropic.claude-v2", "amazon.titan-text"}

\* the retry counts of direct _move_with_retry calls: those configuration
\* validation accepts for retry_attempts, up to MaxRetries
RetryCounts == {n \in 0..MaxRetries : ~(n < 0)}

\* the remote model is not called
NoRemoteCall == [raises |-> FALSE, completion |-> << >>, text |-> << >>]

\* a handler whose SUPPORTED_EXTENSIONS lacks .text
SUPPORTED_EXTENSIONS_no_text == {ExtPdf, ExtTxt}

SUPPORTED_EXTENSIONS == {ExtPdf, ExtTxt, ExtText}

\* retries: int = 3 of _move_with_retry
DefaultRetries == 3
\* time.sleep(2)
RetryDelay == 2

(***************************************************************************)
(* The state.                                                              *)
(***************************************************************************)
VARIABLES
    config,          \* the processing section of the configuration
    configured,      \* the arguments LLMService was constructed with
    mode,            \* LLMService.mode
    bedrock_client,  \* LLMService._bedrock_client is not None
    bedrock_model,   \* LLMService.bedrock_model
    now,             \* the wall clock, in seconds
    at_source,       \* the paths of the watched folder at which a file exists
    org_exists,      \* the organized root exists
    organized,       \* the organized root: file name -> file
    monitor_alive,   \* FileMonitor.observer is there and alive: its thread
                     \* has been started and has not ended
    stopping,        \* observer.stop() has been called on that observer and
                     \* its thread has not ended yet
    calls,           \* calls made so far
    pc,              \* where the call in progress is
    entry,           \* its entry point: watch, process, organize, generate
    cur,             \* its path
    existed,         \* a file existed at the path when the call began
    content_sample,  \* process_file's content_sample
    new_name,        \* process_file's new_name, organize_file's argument
    target_path,     \* organize_file's target_path (the file name)
    retries,         \* _move_with_retry's retries
    attempt,         \* _move_with_retry's attempt
    last_rename,     \* what the last os.rename of the call did
    renames,         \* os.rename calls of the call
    delays,          \* the time.sleep calls of the call
    stages,          \* the stages the call has entered, with their argument
    result,          \* how the call ended
    placed,          \* the successful organize_file calls, in order
    watch_failed,    \* process_file has raised into the event handler
    args,            \* the arguments of a direct call of a pure method
    ret,             \* what that call returned
    queue,           \* the created events the observer has not dispatched
    in_flight,       \* the paths process_file has begun and not ended
    peer             \* a second organizer writing to the same organized root

vars == <<config, mode, bedrock_client, bedrock_model, now, at_source,
          org_exists, organized, monitor_alive, stopping, calls, pc, entry, cur,
          existed, content_sample, new_name, target_path, retries, attempt,
          last_rename, renames, delays, stages, result, placed,
          watch_failed, configured, args, ret, queue, in_flight, peer>>

env_vars == <<config, configured, mode, bedrock_client, bedrock_model>>
call_vars == <<args, ret>>
fs_vars == <<at_source, org_exists, organized>>
move_vars == <<target_path, retries, attempt, last_rename, renames, delays>>

\* z.txt, the file of another folder that a second FileOrganizer, of another
\* process, moves into the same organized root
PeerFile == [id |-> 201, name |-> <<122, 46, 116, 120, 116>>]

\* generate_filename has not been called
NotNamed == [exc |-> "not called", value |-> << >>]

\* the second organizer has not been called
NoPeer == [pc |-> "idle", target_path |-> << >>]

\* extract: what extract_text raised; generator: the generator that
\* generate_filename invoked; caught: what generate_filename caught inside; stage, inner: the stage that ended the call and what it raised;
\* process, handler: what left process_file and on_created; returned: the
\* value organize_file returned; named: what generate_filename returned or
\* raised
NoResult ==
    [extract |-> "none", generator |-> "none", caught |-> "none",
     named |-> NotNamed, stage |-> "none",
     inner |-> "none", process |-> "none", handler |-> "none",
     returned |-> "none"]

\* the call ends: `stage` raised `exc` ("none": it returned `returned`)
Outcome(res, e, stage, exc, returned) ==
    LET process == IF e \in {"watch", "process"}
                   THEN process_file_except(stage, exc) ELSE "none"
    IN  [res EXCEPT !.stage = IF exc = "none" THEN "none" ELSE stage,
                    !.inner = exc,
                    !.process = process,
                    !.handler = IF e = "watch" THEN on_created_except(process)
                                               ELSE "none",
                    !.returned = returned]

Init ==
    /\ config \in Configs
    /\ \E a \in LLMArgs :
          /\ configured = a
          /\ mode = llm_init(a.mode, a.boto_ok).mode
          /\ bedrock_client = llm_init(a.mode, a.boto_ok).client
          /\ bedrock_model = a.model
    /\ now = 0
    /\ at_source = {p \in Paths : Files[p].exists}
    /\ \E r \in InitialRoots : org_exists = r.exists /\ organized = r.files
    /\ monitor_alive = FALSE
    /\ stopping = FALSE
    /\ calls = 0
    /\ pc = "idle"
    /\ entry = "none"
    /\ cur = 0
    /\ existed = FALSE
    /\ content_sample = << >>
    /\ new_name = << >>
    /\ target_path = << >>
    /\ retries = 0
    /\ attempt = 0
    /\ last_rename = "none"
    /\ renames = 0
    /\ delays = << >>
    /\ stages = << >>
    /\ result = NoResult
    /\ placed = << >>
    /\ watch_failed = FALSE
    /\ args = << >>
    /\ ret = << >>
    /\ queue = << >>
    /\ in_flight = {}
    /\ peer = NoPeer

(***************************************************************************)
(* The filesystem.                                                         *)
(***************************************************************************)
\* a rename that leaves the source in place (a copy)
os_rename_copy(src, org, p, target) ==
    [at_source |-> src,
     organized |-> [n \in DOMAIN org \cup {target} |->
                        IF n = target THEN p ELSE org[n]]]

\* os.rename(source, destination) succeeding: the file leaves its source
\* path and is at the destination, replacing what was there (POSIX)
os_rename(src, org, p, target) ==
    [at_source |-> src \ {p},
     organized |-> [n \in DOMAIN org \cup {target} |->
                        IF n = target THEN p ELSE org[n]]]

\* the for loop of _move_with_retry letting any OSError be retried
move_next_retry_oserror(outcome, att, tries) ==
    IF outcome = "ok" THEN "return"
    ELSE IF att < tries - 1 THEN "sleep" ELSE "raise"

\* the for loop of _move_with_retry sleeping after its last attempt too
move_next_sleep_last(outcome, att, tries) ==
    IF outcome = "ok" THEN "return"
    ELSE IF outcome = "PermissionError"
         THEN (IF att < tries THEN "sleep" ELSE "raise")
         ELSE "raise"

\* what one iteration of the for loop of _move_with_retry does after
\* os.rename: return True, sleep and go on, or raise FileOrganizerError
move_next(outcome, att, tries) ==
    IF outcome = "ok" THEN "return"
    ELSE IF outcome = "PermissionError"
         THEN (IF att < tries - 1 THEN "sleep" ELSE "raise")
         ELSE "raise"

\* organize_file creating the organized root before it looks at the source
organize_file_start_mkdir_first(source_exists, root_exists, mkdir) ==
    IF ~root_exists /\ mkdir = "OSError"
    THEN [exc |-> "OSError", org_exists |-> root_exists]
    ELSE IF ~source_exists
         THEN [exc |-> "FileOrganizerError", org_exists |-> TRUE]
         ELSE [exc |-> "none", org_exists |-> TRUE]

\* organize_file up to the conflict probe: the existence check of the
\* source, then mkdir(parents=True, exist_ok=True), which creates the root
\* if it is missing or raises (mkdir = "OSError")
organize_file_start(source_exists, root_exists, mkdir) ==
    IF ~source_exists
    THEN [exc |-> "FileOrganizerError", org_exists |-> root_exists]
    ELSE IF ~root_exists /\ mkdir = "OSError"
         THEN [exc |-> "OSError", org_exists |-> root_exists]
         ELSE [exc |-> "none", org_exists |-> TRUE]

\* the file name organize_file moves the file to, before the conflict probe
new_filename(name, source_name) == sanitize_filename(name) \o Suffix(source_name)

\* on_created handing the file to another thread and returning at once
handler_returned_at_once(p_c) == TRUE

\* on_created runs time.sleep(0.5) and process_file inline, so the thread
\* that called it is back from it only when the call is over, the settle
\* wait included
handler_returned(p_c) == p_c = "idle"

(***************************************************************************)
(* The entry points.                                                       *)
(***************************************************************************)
\* where FileMonitor.start() can raise: at the mkdir of the watched folder,
\* at Observer(), at observer.schedule(...) and at observer.start()
StartFailures == {"mkdir", "Observer", "schedule", "start"}

\* FileMonitor.start(): the watched folder is made, an Observer is created
\* and assigned to FileMonitor.observer, the handler is scheduled on it and
\* its thread is started; raises is "none", or the call that raised, which
\* start() wraps in FileMonitorError. Up to Observer() a failure leaves the
\* old observer, with the events it never dispatched; after it,
\* FileMonitor.observer is the new observer, which has no event yet and is
\* alive only if its thread was started.
MonitorStart(raises) ==
    /\ pc = "idle"
    /\ ~monitor_alive
    /\ monitor_alive' = (raises = "none")
    /\ queue' = IF raises \in {"mkdir", "Observer"} THEN queue ELSE << >>
    /\ UNCHANGED <<env_vars, peer, call_vars, in_flight, now, fs_vars, stopping,
                   calls, pc, entry, cur, existed, content_sample, new_name,
                   move_vars, stages, result, placed, watch_failed>>

\* FileMonitor.stop() up to observer.stop(): called at any time, from the
\* signal handler too, while the observer is alive. The observer's thread
\* is told to stop: it calls the handler for no further event, and the
\* handler it is in goes on. The emitter of the watch goes on queueing
\* events until the thread has ended.
MonitorStop ==
    /\ monitor_alive
    /\ stopping' = TRUE
    /\ UNCHANGED <<env_vars, peer, call_vars, queue, in_flight, now, fs_vars,
                   monitor_alive, calls, pc, entry, cur, existed,
                   content_sample, new_name, move_vars, stages, result,
                   placed, watch_failed>>

\* observer.join(timeout=5) of FileMonitor.stop(): the stopped observer's
\* thread ends once the handler it is in has returned, and what it has not
\* dispatched stays undispatched; stop() returns then, or after the
\* timeout, which changes nothing here
ObserverJoin ==
    /\ pc = "idle"
    /\ monitor_alive
    /\ stopping
    /\ monitor_alive' = FALSE
    /\ stopping' = FALSE
    /\ UNCHANGED <<env_vars, peer, call_vars, queue, in_flight, now, fs_vars,
                   calls, pc, entry, cur, existed, content_sample, new_name,
                   move_vars, stages, result, placed, watch_failed>>

\* FileEventHandler.on_created(event), event.src_path = p, up to the settle
\* wait: called by a thread that is back from its previous call, by the
\* observer's thread or directly. A directory and a file of another type
\* end the call; for a supported file the handler goes to time.sleep(0.5).
\* The caller says what becomes of the observer's queue.
OnCreated(p) ==
    /\ handler_returned(pc)
    /\ calls < MaxCalls
    /\ calls' = calls + 1
    /\ entry' = "watch"
    /\ cur' = p
    /\ existed' = (p \in at_source)
    /\ pc' = IF Files[p].is_directory
                \/ Lower(Suffix(Files[p].name)) \notin SUPPORTED_EXTENSIONS
             THEN "done" ELSE "settle"
    /\ UNCHANGED <<env_vars, peer, call_vars, in_flight, now, fs_vars,
                   monitor_alive, stopping, content_sample, new_name,
                   move_vars, stages, result, placed, watch_failed>>

\* time.sleep(0.5) of on_created returns and the handler calls
\* process_file(file_path), whatever has become of the monitor meanwhile
Settle ==
    /\ pc = "settle"
    /\ pc' = "extract"
    /\ in_flight' = in_flight \cup {cur}
    /\ UNCHANGED <<env_vars, peer, call_vars, queue, now, fs_vars,
                   monitor_alive, stopping, calls, entry, cur, existed,
                   content_sample, new_name, move_vars, stages, result,
                   placed, watch_failed>>

\* a file or directory is created at p in the watched folder while the
\* observer runs: the watch that start() scheduled on the folder queues a
\* created event (the watchdog library's emitter). The events the model
\* lets arrive are capped by MaxCalls.
Detect(p) ==
    /\ monitor_alive
    /\ Len(queue) + calls < MaxCalls
    /\ queue' = Append(queue, p)
    /\ UNCHANGED <<env_vars, peer, call_vars, in_flight, now, fs_vars, monitor_alive, stopping,
                   calls, pc, entry, cur, existed, content_sample, new_name,
                   move_vars, stages, result, placed, watch_failed>>

\* the observer's thread, the only caller of the scheduled handler, takes
\* the oldest event and calls on_created (the watchdog library's dispatch
\* loop): only while it is alive and not told to stop, and only when it is
\* back from the handler
Dispatch ==
    /\ monitor_alive
    /\ ~stopping
    /\ queue # << >>
    /\ queue' = Tail(queue)
    /\ OnCreated(Head(queue))

\* FileProcessor.process_file(p) called directly
CallProcessFile(p) ==
    /\ pc = "idle"
    /\ calls < MaxCalls
    /\ calls' = calls + 1
    /\ entry' = "process"
    /\ cur' = p
    /\ existed' = (p \in at_source)
    /\ pc' = "extract"
    /\ in_flight' = in_flight \cup {p}
    /\ UNCHANGED <<env_vars, peer, call_vars, queue, now, fs_vars, monitor_alive, stopping, content_sample,
                   new_name, move_vars, stages, result, placed, watch_failed>>

\* FileOrganizer.organize_file(p, name) called directly
CallOrganizeFile(p, name) ==
    /\ pc = "idle"
    /\ calls < MaxOrganizeCalls
    /\ calls' = calls + 1
    /\ entry' = "organize"
    /\ cur' = p
    /\ existed' = (p \in at_source)
    /\ new_name' = name
    /\ pc' = "organize"
    /\ UNCHANGED <<env_vars, peer, call_vars, queue, in_flight, now, fs_vars, monitor_alive, stopping, content_sample,
                   move_vars, stages, result, placed, watch_failed>>

\* LLMService.generate_filename(content) called directly
CallGenerateFilename(content) ==
    /\ pc = "idle"
    /\ entry' = "generate"
    /\ content_sample' = content
    /\ pc' = "name"
    /\ UNCHANGED <<env_vars, peer, call_vars, queue, in_flight, now, fs_vars, monitor_alive, stopping, calls, cur, existed,
                   new_name, move_vars, stages, result, placed, watch_failed>>

\* FileOrganizer._sanitize_filename(filename) called directly
CallSanitizeFilename(filename) ==
    /\ pc = "idle"
    /\ entry' = "sanitize"
    /\ args' = filename
    /\ ret' = sanitize_filename(filename)
    /\ pc' = "done"
    /\ UNCHANGED <<env_vars, peer, queue, in_flight, now, fs_vars, monitor_alive, stopping,
                   calls, cur, existed, content_sample, new_name, move_vars,
                   stages, result, placed, watch_failed>>

\* TextExtractor(max_length).extract_text(path) called directly on a
\* readable file
CallExtractText(name, text, max_length) ==
    /\ pc = "idle"
    /\ entry' = "extract_text"
    /\ args' = [name |-> name, text |-> text, max_length |-> max_length]
    /\ ret' = extract_text([name |-> name, text |-> text, readable |-> TRUE],
                           TRUE, max_length, "ok")
    /\ pc' = "done"
    /\ UNCHANGED <<env_vars, peer, queue, in_flight, now, fs_vars, monitor_alive, stopping,
                   calls, cur, existed, content_sample, new_name, move_vars,
                   stages, result, placed, watch_failed>>

\* FileOrganizer._handle_conflict(target) called directly, the organized
\* root holding the names `existing`
CallHandleConflict(existing, target) ==
    /\ pc = "idle"
    /\ entry' = "handle_conflict"
    /\ args' = [existing |-> existing, target |-> target]
    /\ ret' = handle_conflict(existing, target)
    /\ pc' = "done"
    /\ UNCHANGED <<env_vars, peer, queue, in_flight, now, fs_vars, monitor_alive, stopping,
                   calls, cur, existed, content_sample, new_name, move_vars,
                   stages, result, placed, watch_failed>>

\* LLMService._simulate_filename(content) called directly
CallSimulateFilename(content) ==
    /\ pc = "idle"
    /\ entry' = "simulate_filename"
    /\ args' = content
    /\ ret' = simulate_filename(content, now)
    /\ pc' = "done"
    /\ UNCHANGED <<env_vars, peer, queue, in_flight, now, fs_vars, monitor_alive, stopping,
                   calls, cur, existed, content_sample, new_name, move_vars,
                   stages, result, placed, watch_failed>>

\* LLMService._bedrock_filename("data") called directly, the client being
\* there; invoke_model raises, or answers `response` in the field of the
\* model's family and "zz" in the field of the other
CallBedrockFilename(model, raises, response) ==
    /\ pc = "idle"
    /\ entry' = "bedrock_filename"
    /\ args' = [model |-> model, raises |-> raises, response |-> response]
    /\ ret' = bedrock_filename(<<100, 97, 116, 97>>, TRUE, model,
                  [raises |-> raises,
                   completion |-> IF IsClaude(model) THEN response
                                                     ELSE OtherField,
                   text |-> IF IsClaude(model) THEN OtherField
                                               ELSE response],
                  now)
    /\ pc' = "done"
    /\ UNCHANGED <<env_vars, peer, queue, in_flight, now, fs_vars, monitor_alive, stopping,
                   calls, cur, existed, content_sample, new_name, move_vars,
                   stages, result, placed, watch_failed>>

\* FileOrganizer._move_with_retry(p, target, tries) called directly on a
\* file that exists, the organized root being there
CallMoveWithRetry(p, target, tries) ==
    /\ pc = "idle"
    /\ calls < MaxCalls
    /\ p \in at_source
    /\ org_exists
    /\ calls' = calls + 1
    /\ entry' = "move_with_retry"
    /\ cur' = p
    /\ existed' = TRUE
    /\ target_path' = target
    /\ retries' = tries
    /\ attempt' = 0
    /\ pc' = "move"
    /\ UNCHANGED <<env_vars, peer, call_vars, queue, in_flight, now, fs_vars,
                   monitor_alive, stopping, content_sample, new_name, last_rename,
                   renames, delays, stages, result, placed, watch_failed>>

\* TextExtractor._extract_from_text(path) called directly
CallExtractFromText(bytes, ios) ==
    /\ pc = "idle"
    /\ entry' = "extract_from_text"
    /\ args' = [bytes |-> bytes, ios |-> ios]
    /\ ret' = extract_from_text(bytes, ios)
    /\ pc' = "done"
    /\ UNCHANGED <<env_vars, peer, queue, in_flight, now, fs_vars, monitor_alive, stopping,
                   calls, cur, existed, content_sample, new_name, move_vars,
                   stages, result, placed, watch_failed>>

(***************************************************************************)
(* process_file: the three stages.                                         *)
(***************************************************************************)
\* step 1, self.extractor.extract_text(file_path); outcome "unexpected":
\* the extractor handed to FileProcessor raises an exception that is no
\* TextExtractionError
Extract(outcome) ==
    /\ pc = "extract"
    /\ LET r == IF outcome = "unexpected"
                THEN Raise("RuntimeError")
                ELSE extract_text(Files[cur], cur \in at_source,
                                  config.content_sample_length, outcome)
       IN  /\ stages' = Append(stages, [stage |-> "extract",
                                        arg |-> Files[cur].name])
           /\ IF process_file_except("extract", r.exc) = "none"
              THEN \* it returned, or the handler of TextExtractionError ran
                   /\ content_sample' = IF r.exc = "none" THEN r.value
                                                          ELSE << >>
                   /\ pc' = "name"
                   /\ result' = [result EXCEPT !.extract = r.exc]
              ELSE /\ content_sample' = content_sample
                   /\ pc' = "done"
                   /\ result' = Outcome([result EXCEPT !.extract = r.exc],
                                        entry, "extract", r.exc, "none")
    /\ UNCHANGED <<env_vars, peer, call_vars, queue, in_flight, now, fs_vars, monitor_alive, stopping, calls, entry, cur,
                   existed, new_name, move_vars, placed, watch_failed>>

\* step 2, self.llm_service.generate_filename(content_sample, ...)
Name(remote) ==
    /\ pc = "name"
    /\ IF mode = "bedrock" /\ bedrock_client /\ ~IsBlank(content_sample)
       THEN remote \in RemoteOutcomes
       ELSE remote = NoRemoteCall
    /\ LET r == generate_filename(content_sample, mode, bedrock_client,
                                  bedrock_model, remote, now)
           caught == IF IsBlank(content_sample) THEN "none"
                     ELSE generator(content_sample, mode, bedrock_client,
                                    bedrock_model, remote, now).exc
           res == [result EXCEPT !.caught = caught,
                                 !.named = r,
                                 !.generator = IF IsBlank(content_sample)
                                               THEN "none" ELSE mode]
       IN  /\ stages' = Append(stages, [stage |-> "name",
                                        arg |-> content_sample])
           /\ new_name' = r.value
           /\ IF r.exc = "none" /\ entry # "generate"
              THEN pc' = "organize" /\ result' = res
              ELSE pc' = "done"
                   /\ result' = Outcome(res, entry, "name", r.exc, "none")
    /\ UNCHANGED <<env_vars, peer, call_vars, queue, in_flight, now, fs_vars, monitor_alive, stopping, calls, entry, cur,
                   existed, content_sample, move_vars, placed, watch_failed>>

\* step 2 of a FileProcessor built with another naming service, which
\* returns or raises r
NameStub(r) ==
    /\ pc = "name"
    /\ entry \in {"watch", "process"}
    /\ stages' = Append(stages, [stage |-> "name", arg |-> content_sample])
    /\ new_name' = r.value
    /\ pc' = after_naming(r.exc)
    /\ LET res == [result EXCEPT !.generator = "stub", !.named = r]
       IN  result' = IF r.exc = "none" THEN res
                     ELSE Outcome(res, entry, "name", r.exc, "none")
    /\ UNCHANGED <<env_vars, peer, call_vars, queue, in_flight, now, fs_vars,
                   monitor_alive, stopping, calls, entry, cur, existed, content_sample,
                   move_vars, placed, watch_failed>>

(***************************************************************************)
(* organize_file.                                                          *)
(***************************************************************************)
\* organize_file up to the call of _move_with_retry: the existence check,
\* the name, mkdir (mkdir: "ok" or "OSError") and the conflict probe
OrganizeStart(mkdir) ==
    /\ pc = "organize"
    /\ stages' = Append(stages, [stage |-> "organize", arg |-> new_name])
    /\ LET start == organize_file_start(cur \in at_source, org_exists, mkdir)
       IN  /\ org_exists' = start.org_exists
           /\ IF start.exc # "none"
              THEN /\ pc' = "done"
                   /\ result' = Outcome(result, entry, "organize", start.exc,
                                        "none")
                   /\ UNCHANGED move_vars
              ELSE /\ target_path' = handle_conflict(DOMAIN organized,
                                         new_filename(new_name, Files[cur].name))
                   /\ retries' = DefaultRetries
                   /\ attempt' = 0
                   /\ pc' = "move"
                   /\ result' = result
                   /\ UNCHANGED <<last_rename, renames, delays>>
    /\ UNCHANGED <<env_vars, peer, call_vars, queue, in_flight, now, at_source,
                   organized, monitor_alive, stopping, calls, entry, cur, existed,
                   content_sample, new_name, placed, watch_failed>>

\* one iteration of the loop of _move_with_retry, up to its sleep:
\* os.rename succeeds or raises PermissionError or another OSError
MoveAttempt(outcome) ==
    /\ pc = "move"
    /\ IF attempt >= retries
       THEN \* the loop is over: return False
            /\ pc' = "done"
            /\ result' = Outcome(result, entry, "organize", "none", "False")
            /\ UNCHANGED <<fs_vars, last_rename, renames, placed>>
       ELSE /\ renames' = renames + 1
            /\ last_rename' = outcome
            /\ IF move_next(outcome, attempt, retries) = "return"
               THEN LET fs == os_rename(at_source, organized, cur, target_path)
                    IN  /\ at_source' = fs.at_source
                        /\ organized' = fs.organized
                        /\ placed' = Append(placed,
                               [path |-> cur, candidate |-> new_name,
                                final |-> target_path,
                                sample |-> content_sample])
                        /\ pc' = "done"
                        /\ result' = Outcome(result, entry, "organize", "none", "True")
                        /\ UNCHANGED org_exists
               ELSE /\ UNCHANGED <<fs_vars, placed>>
                    /\ IF move_next(outcome, attempt, retries) = "sleep"
                       THEN pc' = "sleep" /\ result' = result
                       ELSE /\ pc' = "done"
                            /\ result' = Outcome(result, entry, "organize",
                                                 "FileOrganizerError", "none")
    /\ UNCHANGED <<env_vars, peer, call_vars, queue, in_flight, now, monitor_alive, stopping, calls, entry, cur, existed,
                   content_sample, new_name, target_path, retries, attempt,
                   delays, stages, watch_failed>>

\* time.sleep(2), then the next iteration
Sleep ==
    /\ pc = "sleep"
    /\ delays' = Append(delays, RetryDelay)
    /\ attempt' = attempt + 1
    /\ pc' = "move"
    /\ UNCHANGED <<env_vars, peer, call_vars, queue, in_flight, now, fs_vars, monitor_alive, stopping, calls, entry, cur,
                   existed, content_sample, new_name, target_path, retries,
                   last_rename, renames, stages, result, placed, watch_failed>>

\* the call is over: control is back at the caller (for "watch", at the
\* observer thread, which an exception leaving on_created ends)
Finish ==
    /\ pc = "done"
    /\ pc' = "idle"
    /\ monitor_alive' = (monitor_alive /\ result.handler = "none")
    /\ stopping' = (stopping /\ result.handler = "none")
    /\ watch_failed' = (watch_failed
                        \/ (entry = "watch" /\ result.process # "none"))
    /\ entry' = "none"
    /\ cur' = 0
    /\ existed' = FALSE
    /\ content_sample' = << >>
    /\ new_name' = << >>
    /\ target_path' = << >>
    /\ retries' = 0
    /\ attempt' = 0
    /\ last_rename' = "none"
    /\ renames' = 0
    /\ delays' = << >>
    /\ stages' = << >>
    /\ result' = NoResult
    /\ args' = << >>
    /\ ret' = << >>
    /\ in_flight' = in_flight \ {cur}
    /\ UNCHANGED <<env_vars, peer, queue, now, fs_vars, calls, placed>>

\* a second passes; the clock is read by generate_filename only, so it is
\* enough that time passes before that call
Tick ==
    /\ pc = "name"
    /\ now < MaxClock
    /\ now' = now + 1
    /\ UNCHANGED <<env_vars, peer, call_vars, queue, in_flight, fs_vars, monitor_alive, stopping, calls, pc, entry, cur,
                   existed, content_sample, new_name, move_vars, stages,
                   result, placed, watch_failed>>

(***************************************************************************)
(* A second organizer, of another process, on the same organized root.     *)
(***************************************************************************)
\* its organize_file(z.txt, name) up to the call of _move_with_retry: mkdir
\* and the conflict probe, on the root as it is now
PeerOrganizeStart(name) ==
    /\ peer.pc = "idle"
    /\ org_exists' = organize_file_start(TRUE, org_exists, "ok").org_exists
    /\ peer' = [pc |-> "move",
                target_path |-> handle_conflict(DOMAIN organized,
                                    new_filename(name, PeerFile.name))]
    /\ UNCHANGED <<env_vars, call_vars, queue, in_flight, now, at_source,
                   organized, monitor_alive, stopping, calls, pc, entry, cur, existed,
                   content_sample, new_name, move_vars, stages, result,
                   placed, watch_failed>>

\* its os.rename, succeeding
PeerMove ==
    /\ peer.pc = "move"
    /\ organized' = os_rename({PeerFile.id}, organized, PeerFile.id,
                              peer.target_path).organized
    /\ peer' = [peer EXCEPT !.pc = "done"]
    /\ UNCHANGED <<env_vars, call_vars, queue, in_flight, now, at_source,
                   org_exists, monitor_alive, stopping, calls, pc, entry, cur, existed,
                   content_sample, new_name, move_vars, stages, result,
                   placed, watch_failed>>

(***************************************************************************)
(* The specifications.                                                     *)
(***************************************************************************)
\* the watcher's events and direct process_file calls
Next ==
    \/ \E raises \in StartFailures \cup {"none"} : MonitorStart(raises)
    \/ MonitorStop
    \/ ObserverJoin
    \/ \E p \in Paths : OnCreated(p) /\ UNCHANGED queue
    \/ Settle
    \/ \E p \in FilePaths : CallProcessFile(p)
    \/ \E outcome \in {"ok", "unreadable", "unexpected"} : Extract(outcome)
    \/ \E remote \in RemoteOutcomes \cup {NoRemoteCall} : Name(remote)
    \/ \E mkdir \in {"ok", "OSError"} : OrganizeStart(mkdir)
    \/ \E outcome \in {"ok", "PermissionError", "OSError"} : MoveAttempt(outcome)
    \/ Sleep
    \/ Finish
    \/ Tick

Spec == Init /\ [][Next]_vars

\* a FileProcessor alone: direct process_file calls, no monitor
NextProcess ==
    \/ \E p \in FilePaths : CallProcessFile(p)
    \/ \E outcome \in {"ok", "unreadable", "unexpected"} : Extract(outcome)
    \/ \E remote \in RemoteOutcomes \cup {NoRemoteCall} : Name(remote)
    \/ \E mkdir \in {"ok", "OSError"} : OrganizeStart(mkdir)
    \/ \E outcome \in {"ok", "PermissionError", "OSError"} : MoveAttempt(outcome)
    \/ Sleep
    \/ Finish
    \/ Tick

SpecProcess == Init /\ [][NextProcess]_vars

\* a FileOrganizer alone: no configuration is read, no name is generated
InitOrganize ==
    /\ Init
    /\ config.retry_attempts = DefaultRetries
    /\ configured.mode = "simulated"
    /\ mode = "simulated"
    /\ ~bedrock_client

\* direct organize_file calls, with any candidate name
NextOrganize ==
    \/ \E p \in FilePaths, name \in CandidateNames : CallOrganizeFile(p, name)
    \/ \E mkdir \in {"ok", "OSError"} : OrganizeStart(mkdir)
    \/ \E outcome \in {"ok", "PermissionError", "OSError"} : MoveAttempt(outcome)
    \/ Sleep
    \/ Finish

SpecOrganize == InitOrganize /\ [][NextOrganize]_vars

\* a step of the loop of _move_with_retry
MoveStep ==
    \/ \E outcome \in {"ok", "PermissionError", "OSError"} : MoveAttempt(outcome)
    \/ Sleep

\* os.rename and time.sleep return: the thread running _move_with_retry
\* goes on as long as the loop has a step to take
SpecMove == SpecOrganize /\ WF_vars(MoveStep)

\* an LLMService alone
InitNaming ==
    /\ Init
    /\ config.retry_attempts = DefaultRetries
    /\ ~org_exists

\* direct generate_filename calls, with any content sample
NextNaming ==
    \/ \E content \in Contents : CallGenerateFilename(content)
    \/ \E remote \in RemoteOutcomes \cup {NoRemoteCall} : Name(remote)
    \/ Finish
    \/ Tick

SpecNaming == InitNaming /\ [][NextNaming]_vars

\* the components with their defaults, the monitor constructed and not
\* started, the organized root not yet there
InitWatch ==
    /\ Init
    /\ config.retry_attempts = DefaultRetries
    /\ configured.mode = "simulated"
    /\ ~org_exists

\* created events queue up at any time and are dispatched one by one
NextWatch ==
    \/ \E raises \in StartFailures \cup {"none"} : MonitorStart(raises)
    \/ MonitorStop
    \/ ObserverJoin
    \/ \E p \in EventPaths : Detect(p)
    \/ Dispatch
    \/ Settle
    \/ \E outcome \in {"ok", "unreadable", "unexpected"} : Extract(outcome)
    \/ \E remote \in {NoRemoteCall} : Name(remote)
    \/ \E mkdir \in {"ok", "OSError"} : OrganizeStart(mkdir)
    \/ \E outcome \in {"ok", "PermissionError", "OSError"} : MoveAttempt(outcome)
    \/ Sleep
    \/ Finish
    \/ Tick

SpecWatch == InitWatch /\ [][NextWatch]_vars

\* what the observer's thread does on its own: it dispatches an event and
\* runs the handler to its end (the naming and the start of organize_file
\* are in NamingReturns and OrganizeGoesOn)
HandlerStep ==
    \/ Dispatch
    \/ Settle
    \/ \E outcome \in {"ok", "unreadable", "unexpected"} : Extract(outcome)
    \/ \E outcome \in {"ok", "PermissionError", "OSError"} : MoveAttempt(outcome)
    \/ Sleep
    \/ Finish

\* generate_filename returns or raises
NamingReturns == []<>(pc # "name")

\* organize_file gets to its move or raises
OrganizeGoesOn == []<>(pc # "organize")

\* the observer's thread is scheduled and every call it makes returns: it
\* goes on as long as it has a step to take
SpecWatchLive ==
    /\ SpecWatch
    /\ WF_vars(HandlerStep)
    /\ NamingReturns
    /\ OrganizeGoesOn

\* two organizers on one organized root: organize_file calls of this
\* process, and one organize_file call of another process at any time
NextRace ==
    \/ \E p \in FilePaths, name \in CandidateNames :
          calls < MaxRaceCalls /\ CallOrganizeFile(p, name)
    \/ \E mkdir \in {"ok", "OSError"} : OrganizeStart(mkdir)
    \/ \E outcome \in {"ok", "PermissionError", "OSError"} : MoveAttempt(outcome)
    \/ Sleep
    \/ Finish
    \/ \E name \in CandidateNames : PeerOrganizeStart(name)
    \/ PeerMove

SpecRace == InitOrganize /\ [][NextRace]_vars

\* process_file calls of a FileProcessor built with any naming service
NextPipeline ==
    \/ \E p \in FilePaths : CallProcessFile(p)
    \/ \E outcome \in {"ok", "unreadable", "unexpected"} : Extract(outcome)
    \/ \E r \in StubNamings : NameStub(r)
    \/ \E mkdir \in {"ok", "OSError"} : OrganizeStart(mkdir)
    \/ \E outcome \in {"ok", "PermissionError", "OSError"} : MoveAttempt(outcome)
    \/ Sleep
    \/ Finish

SpecPipeline == InitWatch /\ [][NextPipeline]_vars

\* one component alone, for direct calls of its pure methods
InitPure ==
    /\ Init
    /\ config.retry_attempts = DefaultRetries
    /\ configured.mode = "simulated"
    /\ ~org_exists

\* direct _sanitize_filename calls, with any name
NextSanitize ==
    \/ \E filename \in SanitizeNames : CallSanitizeFilename(filename)
    \/ Finish

SpecSanitize == InitPure /\ [][NextSanitize]_vars

\* direct extract_text calls, with any text and any max_length
NextExtract ==
    \/ \E name \in ExtractNames, text \in ExtractTexts,
          max_length \in MaxLengths : CallExtractText(name, text, max_length)
    \/ Finish

SpecExtract == InitPure /\ [][NextExtract]_vars

\* direct _extract_from_text calls, on any bytes, with any failures of
\* opening and reading
NextDecode ==
    \/ \E bytes \in FileBytes, ios \in IOOutcomes :
          CallExtractFromText(bytes, ios)
    \/ Finish

SpecDecode == InitPure /\ [][NextDecode]_vars

\* direct _handle_conflict calls, on any state of the organized root
NextConflict ==
    \/ \E existing \in SUBSET RootNames, target \in ConflictTargets :
          CallHandleConflict(existing, target)
    \/ Finish

SpecConflict == InitPure /\ [][NextConflict]_vars

\* direct _simulate_filename calls, with any content
NextHeuristic ==
    \/ \E content \in HeuristicContents : CallSimulateFilename(content)
    \/ Finish

SpecHeuristic == InitPure /\ [][NextHeuristic]_vars

\* direct _bedrock_filename calls, with any answer of either model family
NextRemote ==
    \/ \E model \in RemoteModels, raises \in BOOLEAN, response \in Responses :
          CallBedrockFilename(model, raises, response)
    \/ Finish

SpecRemote == InitPure /\ [][NextRemote]_vars

\* a FileOrganizer whose organized root exists
InitMoveRetry == InitOrganize /\ org_exists

\* direct _move_with_retry calls, with any retry count
NextMoveRetry ==
    \/ \E p \in FilePaths, target \in ConflictTargets, tries \in RetryCounts :
          CallMoveWithRetry(p, target, tries)
    \/ \E outcome \in {"ok", "PermissionError", "OSError"} : MoveAttempt(outcome)
    \/ Sleep
    \/ Finish

SpecMoveRetry == InitMoveRetry /\ [][NextMoveRetry]_vars

(***************************************************************************)
(* The claims.                                                             *)
(***************************************************************************)
\* the names under which file p is in the organized root
InOrg(p) == {n \in DOMAIN organized : organized[n] = p}

\* C1: the file is never lost. A file of the watched folder is at exactly
\* one place at any time, its source path or one name of the organized
\* root; and when process_file has ended for a file that existed, the file
\* is in the organized root (and not at its source) if process_file
\* returned, at its source (and not in the root) if it raised.
C1_FileNeverLost ==
    /\ \A p \in FilePaths :
          Files[p].exists =>
              /\ (p \in at_source) # (InOrg(p) # {})
              /\ Cardinality(InOrg(p)) <= 1
    /\ (pc = "done" /\ entry \in {"watch", "process"} /\ existed
            /\ stages # << >>)
          => IF result.process = "none"
             THEN cur \notin at_source /\ Cardinality(InOrg(cur)) = 1
             ELSE cur \in at_source /\ InOrg(cur) = {}

\* extraction failed, the rename met two permission errors and then succeeded
C1_Witness ==
    /\ pc = "done" /\ entry = "process" /\ existed
    /\ result.extract = "TextExtractionError"
    /\ renames = 3 /\ last_rename = "ok"
    /\ result.process = "none"

\* C2: generate_filename never raises. Whatever the content sample, the
\* active mode and the outcome of the remote call, a direct call returns a
\* non-empty name, and when the generator raised inside, the name returned
\* is the fallback name.
C2_GenerateNeverRaises ==
    (pc = "done" /\ entry = "generate")
        => /\ result.inner = "none"
           /\ new_name # << >>
           /\ result.caught # "none" => new_name = fallback_filename(now)

\* the remote call failed inside a direct call
C2_Witness ==
    /\ pc = "done" /\ entry = "generate"
    /\ mode = "bedrock" /\ bedrock_client
    /\ result.caught = "LLMServiceError"

\* C3: an extraction failure never aborts the file. Once extract_text has
\* raised TextExtractionError, process_file goes on with an empty content
\* sample, calls the naming service with the empty sample, and calls the
\* organizing service.
C3_ExtractionFailureContinues ==
    result.extract = "TextExtractionError"
        => /\ content_sample = << >>
           /\ pc \in {"name", "organize", "move", "sleep", "done"}
           /\ pc # "name"
                 => /\ Len(stages) >= 2
                    /\ stages[2] = [stage |-> "name", arg |-> << >>]
           /\ pc \in {"move", "sleep", "done"}
                 => /\ Len(stages) = 3
                    /\ stages[3].stage = "organize"

\* a corrupt document was organized all the same
C3_Witness ==
    /\ pc = "done"
    /\ result.extract = "TextExtractionError"
    /\ Len(stages) = 3
    /\ result.returned = "True"

\* C4: FileProcessorError is the only failure that leaves process_file.
\* Whatever a stage raised (other than the TextExtractionError that is
\* handled), process_file raises FileProcessorError and nothing else.
C4_OnlyFileProcessorError ==
    (pc = "done" /\ entry \in {"watch", "process"})
        => /\ result.process \in {"none", "FileProcessorError"}
           /\ result.inner # "none" => result.process = "FileProcessorError"

\* creating the organized root raised an OSError, which was wrapped
C4_Witness ==
    /\ pc = "done" /\ entry = "process"
    /\ result.stage = "organize" /\ result.inner = "OSError"
    /\ result.process = "FileProcessorError"

\* the event of path p is for a file whose lower-cased extension is .pdf,
\* .txt or .text
SupportedFileEvent(p) ==
    /\ ~Files[p].is_directory
    /\ Lower(Suffix(Files[p].name))
          \in {<<46, 112, 100, 102>>, <<46, 116, 120, 116>>,
               <<46, 116, 101, 120, 116>>}

\* C5: the watch loop never ends because of one file's failure. No
\* exception leaves the event handler, and the observer, once started,
\* stops being alive only after FileMonitor.stop() has been called, when
\* the handler has returned, never at the end of a file's processing. An
\* event leaves the queue of the running observer only by being handed to
\* the handler, which for a supported file goes to its settle wait and from
\* there to process_file on that file. And the events that wait in the
\* queue of the running observer, after a failed file as after any other,
\* are all handed to the handler, unless stop() is called first.
C5_Step ==
    /\ entry = "watch" => result.handler = "none"
    /\ (monitor_alive /\ ~monitor_alive')
          => /\ stopping
             /\ pc = "idle" /\ pc' = "idle"
             /\ UNCHANGED <<calls, watch_failed, fs_vars>>
    /\ (monitor_alive /\ monitor_alive' /\ queue # << >>
           /\ Len(queue') < Len(queue))
          => /\ queue' = Tail(queue)
             /\ entry' = "watch"
             /\ cur' = Head(queue)
             /\ SupportedFileEvent(Head(queue)) => pc' = "settle"
    /\ (entry = "watch" /\ pc = "settle" /\ pc' # "settle")
          => /\ pc' = "extract"
             /\ entry' = "watch"
             /\ cur' = cur
             /\ cur \in in_flight'

\* events wait in the queue of the running observer
Waiting ==
    /\ monitor_alive
    /\ ~stopping
    /\ queue # << >>

C5_WatchLoopSurvives ==
    /\ [][C5_Step]_vars
    /\ Waiting ~> (queue = << >> \/ stopping)
    /\ (entry = "watch" /\ pc = "settle") ~> (pc = "extract")

\* after a failed file, the event of another supported file, which was
\* waiting, has been passed to process_file
C5_Witness ==
    /\ watch_failed
    /\ monitor_alive
    /\ ~stopping
    /\ entry = "watch"
    /\ pc = "extract"
    /\ cur \in in_flight

\* the extension of the source of the i-th organized file
SourceExt(i) == Suffix(Files[placed[i].path].name)

\* the i-th to j-th organized files had the same candidate name and extension
SameRun(i, j) ==
    \A k \in i..j : /\ placed[k].candidate = placed[i].candidate
                    /\ SourceExt(k) = SourceExt(i)

\* the names in the organized root before the i-th organized file was placed
RootBefore(i) ==
    (DOMAIN organized) \ {placed[k].final : k \in i..Len(placed)}

\* the unsuffixed file name of the i-th organized file
BaseName(i) == new_filename(placed[i].candidate, Files[placed[i].path].name)

\* base for n = 0, <stem>_n<ext> otherwise
Expected(base, n) ==
    IF n = 0 THEN base ELSE Stem(base) \o <<95>> \o Dec(n) \o Suffix(base)

\* C6 as stated: files organized one after another under one candidate
\* name, into a root that held no file of the unsuffixed name, are named
\* base, _1, _2, ... in order.
C6_Original ==
    \A i \in DOMAIN placed : \A j \in i..Len(placed) :
        (SameRun(i, j) /\ BaseName(i) \notin RootBefore(i))
            => \A k \in i..j : placed[k].final = Expected(BaseName(i), k - i)

\* C6, amended: files organized one after another under one candidate
\* name, into a root that held neither the unsuffixed name nor any of its
\* _1 .. _(N-1) names, are named base, _1, _2, ... in order, and all the
\* names produced are pairwise distinct.
C6_SequentialSuffixes ==
    /\ \A i \in DOMAIN placed : \A j \in i..Len(placed) :
          (SameRun(i, j)
              /\ \A n \in 0..(j - i) :
                    Expected(BaseName(i), n) \notin RootBefore(i))
            => \A k \in i..j : placed[k].final = Expected(BaseName(i), k - i)
    /\ \A k, l \in DOMAIN placed :
          k # l => placed[k].final # placed[l].final

\* three files under one name: base, _1, _2
C6_Witness ==
    /\ Len(placed) = 3
    /\ SameRun(1, 3)
    /\ \A n \in 0..2 : Expected(BaseName(1), n) \notin RootBefore(1)
    /\ placed[3].final = Expected(BaseName(1), 2)

\* C7: the extension of the final path of every organized file equals the
\* extension of its source path, whatever the candidate name.
C7_ExtensionPreserved ==
    \A i \in DOMAIN placed : Suffix(placed[i].final) = SourceExt(i)

\* the part of the move loop still ahead
MoveMeasure ==
    IF pc = "move" THEN 2 * (3 - attempt) + 1
    ELSE IF pc = "sleep" THEN 2 * (3 - attempt)
    ELSE 0

\* a step taken inside the move loop brings its end nearer
MoveProgress == pc \in {"move", "sleep"} => (MoveMeasure' < MoveMeasure)

C8_Inv ==
    /\ renames <= 3
    /\ Len(delays) <= 2
    /\ pc = "move" => renames = attempt /\ Len(delays) = attempt /\ attempt < 3
    /\ pc = "sleep"
          => /\ last_rename = "PermissionError"
             /\ renames = attempt + 1
             /\ renames < 3
             /\ Len(delays) = attempt
    /\ (pc = "done" /\ last_rename = "PermissionError")
          => /\ renames = 3
             /\ Len(delays) = 2
             /\ result.inner = "FileOrganizerError"
             /\ result.returned = "none"
    /\ (pc = "done" /\ last_rename = "ok")
          => /\ result.inner = "none"
             /\ result.returned = "True"
             /\ Len(delays) = renames - 1
    /\ result.returned # "False"

\* C8: the move is the state machine Idle -> Attempting(1..3) -> Succeeded.
\* A permission error on attempt n < 3 is followed by the delay and attempt
\* n + 1; on attempt 3 it ends the move with FileOrganizerError and no
\* delay; a successful rename ends it with success; at most 3 renames are
\* made, every step of the loop brings its end nearer, and a move that has
\* begun ends.
C8_MoveStateMachine ==
    /\ []C8_Inv
    /\ [][MoveProgress]_vars
    /\ (pc \in {"move", "sleep"}) ~> (pc = "done")

\* the permission error persisted: three attempts, then failure
C8_Witness ==
    /\ pc = "done"
    /\ last_rename = "PermissionError"
    /\ renames = 3
    /\ delays = <<2, 2>>

\* C9: under repeated permission errors the move is attempted
\* retry_attempts times, with delays of retry_delay, as configured.
C9_ConfiguredRetries ==
    (pc = "done" /\ last_rename = "PermissionError")
        => /\ renames = config.retry_attempts
           /\ Len(delays) = config.retry_attempts - 1
           /\ \A i \in DOMAIN delays : delays[i] = config.retry_delay

\* C10: an OSError of the rename other than a permission error ends the
\* move at once with FileOrganizerError: no delay follows it and no other
\* rename, and the file is still at its source.
C10_OSErrorFailsAtOnce ==
    last_rename = "OSError"
        => /\ pc = "done"
           /\ result.inner = "FileOrganizerError"
           /\ Len(delays) = renames - 1
           /\ cur \in at_source

\* the second attempt met an OSError
C10_Witness ==
    /\ last_rename = "OSError"
    /\ renames = 2
    /\ pc = "done"

\* C11: organizing or processing a path at which no file exists fails
\* (FileOrganizerError from organize_file, FileProcessorError from
\* process_file) and changes nothing on the filesystem: no rename is
\* attempted, no file is added to the organized root, and the root is not
\* created if it was missing.
C11_Inv ==
    (pc = "done" /\ ~existed /\ stages # << >>)
        => /\ renames = 0
           /\ entry \in {"watch", "process"}
                 => result.process = "FileProcessorError"
           /\ stages[Len(stages)].stage = "organize"
                 => /\ result.stage = "organize"
                    /\ result.inner = "FileOrganizerError"

\* a step of a call made on a missing path leaves the filesystem as it is
C11_Step == (pc # "idle" /\ ~existed) => UNCHANGED fs_vars

C11_MissingSourceChangesNothing == []C11_Inv /\ [][C11_Step]_vars

\* process_file ended on gone.txt with the organized root missing
C11_Witness ==
    /\ pc = "done" /\ entry = "process" /\ ~existed
    /\ result.inner = "FileOrganizerError"
    /\ result.process = "FileProcessorError"
    /\ ~org_exists

\* "document_" and the time stamp of second t
DocumentStamp(t) ==
    <<100, 111, 99, 117, 109, 101, 110, 116, 95>> \o Strftime(t)

\* the sample handed to the naming stage is empty or white space
BlankSampleNamed ==
    /\ entry \in {"watch", "process"}
    /\ Len(stages) >= 2
    /\ \A i \in DOMAIN stages[2].arg : stages[2].arg[i] \in WhiteSpace

\* C12 as stated: whenever the content sample is empty or all white space,
\* no generator is invoked, the candidate name is the fallback name, and
\* when the move succeeds the file is in the organized root under exactly
\* that fallback name plus its source extension and no longer at its source.
C12_Original ==
    BlankSampleNamed
        => /\ result.generator = "none"
           /\ new_name = DocumentStamp(now)
           /\ (pc = "done" /\ result.returned = "True")
                 => /\ cur \notin at_source
                    /\ InOrg(cur)
                         = {DocumentStamp(now) \o Suffix(Files[cur].name)}

\* C12, amended: ... under that fallback name plus its source extension, or
\* under that name with a conflict suffix _k before the extension when the
\* organized root already holds the unsuffixed name.
C12_BlankSampleFallback ==
    BlankSampleNamed
        => /\ result.generator = "none"
           /\ new_name = DocumentStamp(now)
           /\ (pc = "done" /\ result.returned = "True")
                 => /\ cur \notin at_source
                    /\ LET base == DocumentStamp(now) \o Suffix(Files[cur].name)
                       IN  IF base \in RootBefore(Len(placed))
                           THEN \E k \in 1..Len(placed) :
                                   InOrg(cur) = {Expected(base, k)}
                           ELSE InOrg(cur) = {base}

\* a file of white space only was organized under the fallback name
C12_Witness ==
    /\ BlankSampleNamed
    /\ stages[2].arg # << >>
    /\ pc = "done" /\ result.returned = "True"
    /\ InOrg(cur) = {DocumentStamp(now) \o Suffix(Files[cur].name)}

\* the heuristic derives the name of sample s from s and not from the
\* clock: s has a keyword, or a letter, digit or underscore is left of its
\* first three words joined by underscores
NameFromContent(s) ==
    \/ SelectSeq(FindWords(Lower(Strip(s))),
                 LAMBDA w : w \notin common_words) # << >>
    \/ Keep(Join(Take(Split(Strip(s)), 3), <<95>>), WordChars) # << >>

\* the i-th and the next organized file had the same non-blank content
\* sample and the same extension, and were named by the heuristic
SameContentPair(i) ==
    /\ i + 1 \in DOMAIN placed
    /\ mode = "simulated"
    /\ placed[i].sample = placed[i + 1].sample
    /\ Strip(placed[i].sample) # << >>
    /\ SourceExt(i) = SourceExt(i + 1)

\* C13 as stated: two files with identical extractable content processed
\* in sequence get the same candidate name and land in the organized root
\* with the same base name, the first unsuffixed, the second with _1.
C13_Original ==
    \A i \in DOMAIN placed :
        SameContentPair(i)
            => /\ placed[i].candidate = placed[i + 1].candidate
               /\ placed[i].final = BaseName(i)
               /\ placed[i + 1].final = Expected(BaseName(i), 1)

\* C13, amended: for content from which the heuristic derives a name (it
\* does not fall back to the time stamp), two files with identical content
\* processed in sequence get the same candidate name; and if the organized
\* root held neither the unsuffixed name nor the _1 name, the first lands
\* unsuffixed and the second with the _1 suffix.
C13_SameContentSameName ==
    \A i \in DOMAIN placed :
        (SameContentPair(i) /\ NameFromContent(placed[i].sample))
            => /\ placed[i].candidate = placed[i + 1].candidate
               /\ (BaseName(i) \notin RootBefore(i)
                     /\ Expected(BaseName(i), 1) \notin RootBefore(i))
                    => /\ placed[i].final = BaseName(i)
                       /\ placed[i + 1].final = Expected(BaseName(i), 1)

\* a.txt and b.txt, "!! data", landed as Data.txt and Data_1.txt
C13_Witness ==
    /\ Len(placed) = 2
    /\ SameContentPair(1)
    /\ NameFromContent(placed[1].sample)
    /\ placed[1].candidate = <<68, 97, 116, 97>>
    /\ placed[1].final = <<68, 97, 116, 97, 46, 116, 120, 116>>
    /\ placed[2].final = <<68, 97, 116, 97, 95, 49, 46, 116, 120, 116>>

C14_Inv ==
    (configured.mode = "bedrock" /\ ~configured.boto_ok)
        => /\ mode = "simulated"
           /\ ~bedrock_client
           /\ result.generator \in {"none", "simulated"}

\* no step changes the active mode or whether there is a remote client
C14_Step == mode' = mode /\ bedrock_client' = bedrock_client

\* C14: if the service is configured for remote mode and the remote client
\* cannot be constructed, the active mode is simulated when construction
\* ends, and for good: no generate_filename call changes the active mode,
\* builds a client or calls the remote generator.
C14_DowngradeIsPermanent == []C14_Inv /\ [][C14_Step]_vars

\* a call made after the downgrade was served by the heuristic
C14_Witness ==
    /\ configured.mode = "bedrock" /\ ~configured.boto_ok
    /\ pc = "done" /\ entry = "generate"
    /\ result.generator = "simulated"

\* C15: when the service is in remote mode with a client and the remote
\* call fails, the error does not leave generate_filename: the call returns
\* the fallback name document_<timestamp>, not a heuristic name, and the
\* active mode stays remote.
C15_RemoteFailureFallsBack ==
    /\ (configured.mode = "bedrock" /\ configured.boto_ok)
          => mode = "bedrock" /\ bedrock_client
    /\ (pc = "done" /\ entry = "generate"
            /\ result.caught = "LLMServiceError")
          => /\ result.generator = "bedrock"
             /\ result.inner = "none"
             /\ new_name = DocumentStamp(now)

\* the remote call failed on a sample the heuristic would have named
C15_Witness ==
    /\ pc = "done" /\ entry = "generate"
    /\ result.caught = "LLMServiceError"
    /\ NameFromContent(content_sample)
    /\ new_name = DocumentStamp(now)
    /\ now = 1

\* the number of times the call in progress has entered process_file
ProcessFileCalls ==
    Cardinality({i \in DOMAIN stages : stages[i].stage = "extract"})

\* C16: for every created event the watcher calls process_file exactly once
\* if the event is for a file whose lower-cased extension is one of .pdf,
\* .txt, .text, and never if it is for a directory or for a file with any
\* other extension. For a supported file the handler is in its settle wait,
\* process_file not yet called, or it has called process_file once, on the
\* event's path; for any other event the handler ends with no call.
C16_SupportedEventsProcessedOnce ==
    entry = "watch"
        => IF SupportedFileEvent(cur)
           THEN \/ /\ pc = "settle"
                   /\ stages = << >>
                   /\ cur \notin in_flight
                \/ /\ pc = "extract"
                   /\ stages = << >>
                   /\ cur \in in_flight
                \/ /\ pc \in {"name", "organize", "move", "sleep", "done"}
                   /\ cur \in in_flight
                   /\ ProcessFileCalls = 1
                   /\ stages[1] = [stage |-> "extract",
                                   arg |-> Files[cur].name]
           ELSE /\ pc = "done"
                /\ stages = << >>
                /\ cur \notin in_flight

\* the event of f.text was handled: process_file ran once
C16_Witness ==
    /\ entry = "watch" /\ pc = "done"
    /\ Files[cur].name = <<102, 46, 116, 101, 120, 116>>
    /\ ProcessFileCalls = 1

\* C17: for every candidate name the sanitized name contains none of
\* / \ : * ? " < > | and no control character (0x00-0x1F, 0x7F-0x9F), has no
\* leading or trailing space or dot, and is never empty: when removing and
\* stripping leaves nothing the result is the literal "unnamed".
C17_SanitizedNameIsClean ==
    (entry = "sanitize" /\ pc = "done")
        => /\ \A i \in DOMAIN ret :
                 /\ ret[i] \notin {47, 92, 58, 42, 63, 34, 60, 62, 124}
                 /\ ret[i] \notin 0..31
                 /\ ret[i] \notin 127..159
           /\ ret # << >>
           /\ ret[1] \notin {32, 46}
           /\ ret[Len(ret)] \notin {32, 46}
           /\ (\A i \in DOMAIN args :
                   args[i] \in {47, 92, 58, 42, 63, 34, 60, 62, 124, 32, 46}
                                  \cup (0..31) \cup (127..159))
                 => ret = <<117, 110, 110, 97, 109, 101, 100>>

\* " a/" was sanitized to "a"
C17_Witness ==
    /\ entry = "sanitize" /\ pc = "done"
    /\ args = <<32, 97, 47>>
    /\ ret = <<97>>

\* C18: for all inputs and all max_length (a natural number) the
\* extracted text has length at most max_length; if the source text after
\* normalization (the text the file's reader yields) is shorter than
\* max_length it is returned unchanged; otherwise the result is the prefix
\* of the normalized source of length exactly max_length.
C18_ExtractTruncates ==
    (entry = "extract_text" /\ pc = "done")
        => LET source == reader_text(args)
               max_length == args.max_length
           IN  /\ ret.exc = "none"
               /\ Len(ret.value) <= max_length
               /\ IF Len(source) < max_length
                  THEN ret.value = source
                  ELSE /\ Len(ret.value) = max_length
                       /\ ret.value = SubSeq(source, 1, max_length)

\* "\r\na" read as "\na" and cut to its first character
C18_Witness ==
    /\ entry = "extract_text" /\ pc = "done"
    /\ args.name = <<120, 46, 116, 120, 116>>
    /\ args.text = <<13, 10, 97>>
    /\ args.max_length = 1
    /\ ret.value = <<10>>

\* C19: for all text inputs, naming in simulated mode returns a non-empty
\* string that is not only white space and contains none of
\* / \ : * ? " < > |.
C19_HeuristicNameIsValid ==
    (pc = "done" /\ entry = "generate" /\ mode = "simulated")
        => /\ new_name # << >>
           /\ \E i \in DOMAIN new_name : new_name[i] \notin WhiteSpace
           /\ \A i \in DOMAIN new_name :
                 new_name[i] \notin {47, 92, 58, 42, 63, 34, 60, 62, 124}

\* "t/h" was named "Th"
C19_Witness ==
    /\ pc = "done" /\ entry = "generate" /\ mode = "simulated"
    /\ content_sample = <<116, 47, 104>>
    /\ new_name = <<84, 104>>

\* C20: files are processed one at a time. The handler runs the settle
\* delay and the whole of process_file for one detected file before the
\* next event is handled: the handler is entered only when no call is under
\* way and no file in flight, from its entry to its end it stays on its
\* file, and the settle delay leads to process_file on that file. So at no
\* time are two files between the start of extraction and the end of the
\* move.
C20_Inv ==
    /\ Cardinality(in_flight) <= 1
    /\ pc \in {"extract", "name", "organize", "move", "sleep"}
          => in_flight = {cur}
    /\ pc \in {"idle", "settle"} => in_flight = {}

C20_Step ==
    /\ calls' # calls => pc = "idle" /\ in_flight = {}
    /\ pc \in {"settle", "extract", "name", "organize", "move", "sleep"}
          => cur' = cur /\ entry' = entry
    /\ pc = "settle" => pc' \in {"settle", "extract"}

C20_OneFileAtATime == []C20_Inv /\ [][C20_Step]_vars

\* an event is waiting in the queue while another file's move is retried
C20_Witness ==
    /\ entry = "watch" /\ pc = "sleep"
    /\ queue # << >>
    /\ Head(queue) # cur
    /\ SupportedFileEvent(Head(queue))
    /\ in_flight = {cur}

\* C21: the conflict probe and the move are not one atomic step. The path
\* the probe returns is free when the probe returns, and as long as this
\* operation is between its probe and its rename the path stays free unless
\* a second organize operation, which chose the same path, moves its file
\* there: then the path exists by the time of the rename.
C21_Step ==
    /\ (pc = "organize" /\ pc' = "move")
          => target_path' \notin DOMAIN organized'
    /\ (/\ pc \in {"move", "sleep"}
        /\ pc' \in {"move", "sleep"}
        /\ target_path \notin DOMAIN organized
        /\ target_path \in DOMAIN organized')
          => /\ peer.pc = "move"
             /\ peer'.pc = "done"
             /\ peer.target_path = target_path

C21_ProbeThenMoveNotAtomic == [][C21_Step]_vars

\* two organize operations chose the same target path, and it exists when
\* this one is about to rename
C21_Witness ==
    /\ pc = "move"
    /\ attempt = 0
    /\ peer.pc = "done"
    /\ peer.target_path = target_path
    /\ target_path \in DOMAIN organized

\* the attempts of the call that read and decode the file
Succeeding ==
    {i \in DOMAIN encodings :
        /\ args.ios[i] = "ok"
        /\ decode(encodings[i], args.bytes).exc = "none"}

\* C22: reading a plain-text file tries utf-8, latin-1, cp1252 in this
\* order; a failing candidate advances to the next, the text of the first
\* candidate that succeeds is returned, and TextExtractionError is raised
\* only when every candidate has failed.
C22_EncodingFallback ==
    (pc = "done" /\ entry = "extract_from_text")
        => /\ encodings = <<"utf-8", "latin-1", "cp1252">>
           /\ IF Succeeding = {}
              THEN ret = Raise("TextExtractionError")
              ELSE ret = Ok(UniversalNewlines(
                            decode(encodings[Min(Succeeding)], args.bytes).value))

\* the file holds a, 0xa9: utf-8 cannot decode it, latin-1 reads a and the
\* copyright sign
C22_Witness ==
    /\ pc = "done"
    /\ entry = "extract_from_text"
    /\ args.bytes = <<97, 169>>
    /\ \A i \in DOMAIN encodings : args.ios[i] = "ok"
    /\ decode("utf-8", args.bytes).exc = "UnicodeDecodeError"
    /\ ret = Ok(<<97, 169>>)

\* the stages the call in progress has entered, in order
StageNames == [i \in DOMAIN stages |-> stages[i].stage]

\* C23: a naming failure is never observed by the orchestrator. With the
\* real naming service, whatever the remote call does, no process_file call
\* ends in the branch that raises FileProcessorError for a failed filename
\* generation, and once naming has been called the organizing stage is the
\* next thing the call does.
C23_NamingFailureNeverObserved ==
    (entry \in {"watch", "process"})
        => /\ result.stage # "name"
           /\ (\E i \in DOMAIN stages : stages[i].stage = "name")
                 => \/ pc = "organize"
                    \/ \E i \in DOMAIN stages : stages[i].stage = "organize"

\* the remote call raised inside generate_filename, and organize_file has
\* been called all the same
C23_Witness ==
    /\ entry = "process"
    /\ result.caught = "LLMServiceError"
    /\ StageNames = <<"extract", "name", "organize">>
    /\ pc = "move"

\* C25: within one process_file call the stages run in the order
\* extraction, naming, organizing, each at most once. Naming is called
\* after extraction, with the sample extraction returned (the empty sample
\* if it failed); organizing is called after naming has returned, with the
\* path of the call and exactly the name naming returned; if naming raises,
\* organizing is never called.
C25_StagesInOrder ==
    (entry \in {"watch", "process"})
        => /\ \E k \in 0..3 :
                 StageNames = SubSeq(<<"extract", "name", "organize">>, 1, k)
           /\ Len(stages) >= 1 => stages[1].arg = Files[cur].name
           /\ Len(stages) >= 2
                 => stages[2].arg =
                        IF result.extract = "none"
                        THEN extract_text(Files[cur], existed,
                                 config.content_sample_length, "ok").value
                        ELSE << >>
           /\ (Len(stages) >= 2) = (result.named # NotNamed)
           /\ Len(stages) = 3
                 => /\ result.named.exc = "none"
                    /\ stages[3].arg = result.named.value
           /\ result.named.exc \notin {"none", "not called"}
                 => Len(stages) = 2 /\ pc = "done"
           /\ (pc = "done" /\ result.returned = "True")
                 => /\ placed[Len(placed)].path = cur
                    /\ placed[Len(placed)].candidate = result.named.value

\* a call went through its three stages: the sample of a.txt was named
\* v1.2 and the file was organized under that name
C25_Witness ==
    /\ entry = "process"
    /\ pc = "done"
    /\ cur = 1
    /\ StageNames = <<"extract", "name", "organize">>
    /\ stages[2].arg = Files[1].text
    /\ stages[3].arg = <<118, 49, 46, 50>>
    /\ result.returned = "True"

\* C24: across any sequence of successful organize operations on one
\* organized root, with any candidate names, the final paths produced are
\* pairwise distinct, and each of them still holds the file that was moved
\* to it.
C24_FinalPathsUnique ==
    /\ \A i, j \in DOMAIN placed :
          i # j => placed[i].final # placed[j].final
    /\ \A i \in DOMAIN placed :
          /\ placed[i].final \in DOMAIN organized
          /\ organized[placed[i].final] = placed[i].path

\* two files organized under one candidate name into a root that held its
\* _1 name: the second is given the _2 name
C24_Witness ==
    /\ Len(placed) = 2
    /\ SameRun(1, 2)
    /\ Expected(BaseName(1), 1) \in RootBefore(1)
    /\ placed[1].final = BaseName(1)
    /\ placed[2].final = Expected(BaseName(1), 2)

\* C29: an organize operation never replaces or removes a file of the
\* organized root. Every step leaves each file of the root in place; the
\* step that ends a call successfully adds exactly one file, the file of
\* the call under the path the probe chose, and no other step adds any.
C29_Step ==
    /\ \A n \in DOMAIN organized :
          n \in DOMAIN organized' /\ organized'[n] = organized[n]
    /\ IF pc # "done" /\ pc' = "done" /\ result'.returned = "True"
       THEN /\ DOMAIN organized' = DOMAIN organized \cup {target_path}
            /\ target_path \notin DOMAIN organized
            /\ organized'[target_path] = cur
       ELSE DOMAIN organized' = DOMAIN organized

C29_RootFilesKept == [][C29_Step]_vars

\* a file was added to a root that held two files, which are still there
C29_Witness ==
    /\ pc = "done"
    /\ result.returned = "True"
    /\ Len(placed) = 2
    /\ Cardinality(DOMAIN organized) = 3
    /\ \E n \in DOMAIN organized : organized[n] = 101
    /\ organized[placed[1].final] = placed[1].path

\* <stem>_k<ext> of the target of the call
Suffixed(k) ==
    Stem(args.target) \o <<95>> \o Dec(k) \o Suffix(args.target)

\* C26: for every state of the organized root, conflict resolution returns
\* the unsuffixed target if it does not exist, and otherwise <stem>_k<ext>
\* for the smallest k >= 1 whose path does not exist; the returned path does
\* not exist, and the probe ends within as many steps as the root has files.
C26_SmallestFreeSuffix ==
    (pc = "done" /\ entry = "handle_conflict")
        => /\ ret \notin args.existing
           /\ args.target \notin args.existing => ret = args.target
           /\ args.target \in args.existing
                 => \E k \in 1..Cardinality(args.existing) :
                        /\ ret = Suffixed(k)
                        /\ \A j \in 1..(k - 1) : Suffixed(j) \in args.existing

\* the root holds Data.txt, Data_2.txt and Data_3.txt: Data.txt is given
\* the missing Data_1.txt
C26_Witness ==
    /\ pc = "done"
    /\ entry = "handle_conflict"
    /\ args.target = <<68, 97, 116, 97, 46, 116, 120, 116>>
    /\ args.existing = {<<68, 97, 116, 97, 46, 116, 120, 116>>,
                        <<68, 97, 116, 97, 95, 50, 46, 116, 120, 116>>,
                        <<68, 97, 116, 97, 95, 51, 46, 116, 120, 116>>}
    /\ ret = <<68, 97, 116, 97, 95, 49, 46, 116, 120, 116>>

\* the elements of the set of positions P of s, in increasing order
InOrder(P) ==
    [k \in 1..Cardinality(P) |->
        CHOOSE i \in P : Cardinality({j \in P : j < i}) = k - 1]

\* the elements of a sequence, each once, in the order of first occurrence
FirstSeen(seq) ==
    LET first == {i \in DOMAIN seq : \A j \in 1..(i - 1) : seq[j] # seq[i]}
    IN  [k \in 1..Cardinality(first) |-> seq[InOrder(first)[k]]]

\* the runs of 4 or more letters of s: substrings of letters that no letter
\* precedes or follows
LetterRuns(s) ==
    LET runs == {r \in (DOMAIN s) \X (DOMAIN s) :
                    /\ r[2] - r[1] >= 3
                    /\ \A i \in r[1]..r[2] : s[i] \in Letters
                    /\ r[1] = 1 \/ s[r[1] - 1] \notin Letters
                    /\ r[2] = Len(s) \/ s[r[2] + 1] \notin Letters}
        ends == [a \in {r[1] : r \in runs} |->
                    CHOOSE b \in DOMAIN s : <<a, b>> \in runs]
        starts == InOrder(DOMAIN ends)
    IN  [k \in DOMAIN starts |-> SubSeq(s, starts[k], ends[starts[k]])]

\* the words of 4 or more letters of s: substrings of letters that no
\* letter, digit or underscore precedes or follows
LetterWords(s) ==
    LET runs == {r \in (DOMAIN s) \X (DOMAIN s) :
                    /\ r[2] - r[1] >= 3
                    /\ \A i \in r[1]..r[2] : s[i] \in Letters
                    /\ r[1] = 1 \/ s[r[1] - 1] \notin WordChars
                    /\ r[2] = Len(s) \/ s[r[2] + 1] \notin WordChars}
        ends == [a \in {r[1] : r \in runs} |->
                    CHOOSE b \in DOMAIN s : <<a, b>> \in runs]
        starts == InOrder(DOMAIN ends)
    IN  [k \in DOMAIN starts |-> SubSeq(s, starts[k], ends[starts[k]])]

\* the name of the specified algorithm for a content with these tokens
HeuristicName(tokens, content) ==
    LET kept == FirstSeen(SelectSeq(tokens, LAMBDA w : w \notin common_words))
        cleaned == Keep(Join(CapitalizeAll(Take(Split(content), 3)), <<95>>),
                        Letters \cup Digits \cup {95})
    IN  IF kept # << >>
        THEN Join(CapitalizeAll(Take(kept, 3)), <<95>>)
        ELSE IF cleaned # << >> THEN cleaned
        ELSE fallback_filename(now)

LineOne(s) ==
    LET n == CHOOSE k \in 0..Len(s) :
                 /\ \A i \in 1..k : s[i] # 10
                 /\ k = Len(s) \/ s[k + 1] = 10
    IN  SubSeq(s, 1, n)

\* s without the characters that are no letter, digit, underscore, hyphen
\* or white space, each run of white space replaced by one underscore
Cleaned(s) ==
    LET kept == SelectSeq(s, LAMBDA c :
                    c \in Letters \cup Digits \cup {95, 45} \cup WhiteSpace)
        heads == {i \in DOMAIN kept :
                     kept[i] \in WhiteSpace
                         => (i = 1 \/ kept[i - 1] \notin WhiteSpace)}
        order == InOrder(heads)
    IN  [k \in DOMAIN order |->
            IF kept[order[k]] \in WhiteSpace THEN 95 ELSE kept[order[k]]]

\* a call of the remote generator that returned
RemoteReturned ==
    pc = "done" /\ entry = "bedrock_filename" /\ ret.exc = "none"

\* C28 as stated: the remote name is the cleaned first line of the model's
\* response field, or the fallback name if that is empty.
C28_Original ==
    RemoteReturned
        => ret.value = IF Cleaned(LineOne(args.response)) # << >>
                       THEN Cleaned(LineOne(args.response))
                       ELSE fallback_filename(now)

\* C28, amended: the remote name is built from the response field of the
\* model's family only, stripped of leading and trailing white space: its
\* first line, cleaned, or the fallback name if that is empty; it contains
\* only letters, digits, underscores and hyphens.
C28_RemoteNameCleaned ==
    RemoteReturned
        => /\ ret.value = IF Cleaned(LineOne(Strip(args.response))) # << >>
                          THEN Cleaned(LineOne(Strip(args.response)))
                          ELSE fallback_filename(now)
           /\ \A i \in DOMAIN ret.value :
                 ret.value[i] \in Letters \cup Digits \cup {95, 45}

\* the model answered "\na ": the name is a, the first line of the
\* stripped answer
C28_Witness ==
    /\ RemoteReturned
    /\ args.response = <<10, 97, 32>>
    /\ LineOne(args.response) = << >>
    /\ ret.value = <<97>>

\* C30: for every retry count that configuration validation accepts,
\* _move_with_retry ends either with a successful rename, returning True,
\* or by raising FileOrganizerError; it never returns False, leaving the
\* file at its source path without an error.
C30_NeverReturnsFalse ==
    (pc = "done" /\ entry = "move_with_retry")
        => \/ /\ result.returned = "True"
              /\ last_rename = "ok"
              /\ cur \notin at_source
           \/ /\ result.inner = "FileOrganizerError"
              /\ result.returned = "none"

=============================================================================
